---- MODULE Spec2Model ----
(***************************************************************************)
(* Trend detection engine of the newsletter backend:                       *)
(*   keyword extraction  (services/keyword_extraction_service.py)          *)
(*   external signal     (services/google_trends_service.py)               *)
(*   velocity, scoring, detection, upsert (services/trend_service.py)      *)
(* and, at the end of the module, draft generation and newsletter sends:  *)
(*   services/draft_service.py, services/newsletter_send_service.py        *)
(*                                                                         *)
(* Numbers that the code rounds to two decimals (score, google score,      *)
(* velocity) are integers counting hundredths: 72.3 is 7230.               *)
(* A text is a sequence of one-character strings; a keyword is a string.   *)
(***************************************************************************)
EXTENDS Integers, Sequences, FiniteSets, TLC

VARIABLES
    content,    \* the content table: a sequence of rows
    trends,     \* the trends table: a set of rows
    next_id,    \* the id the store gives to the next inserted trend row
    now,        \* the clock, in days
    run,        \* the detect_and_save_trends calls in progress, one record per caller
    calls_left, \* number of detect_and_save_trends calls that may still be made
    faults_left,\* number of collaborator failures that may still happen
    call,       \* arguments of a direct call of one function
    ret,        \* what that call returned
    drafts,     \* the drafts table: a set of rows
    sends,      \* the newsletter_sends table: a set of rows
    zone_days   \* the server's local date minus the UTC date, in days

vars == <<content, trends, next_id, now, run, calls_left, faults_left, call, ret,
          drafts, sends, zone_days>>

\* ------------------------------------------------------------------------
\* Generic helpers
\* ------------------------------------------------------------------------

Min(a, b) == IF a <= b THEN a ELSE b

Abs(a) == IF a < 0 THEN 0 - a ELSE a

Range(s) == {s[i] : i \in 1..Len(s)}

\* s[:n]
Take(s, n) == SubSeq(s, 1, Min(n, Len(s)))

\* position of index i in a stable descending sort of keys
\* (list.sort(key=..., reverse=True) keeps equal keys in their original order)
SortRank(keys, i) ==
    1 + Cardinality({j \in 1..Len(keys) :
                        keys[j] > keys[i] \/ (keys[j] = keys[i] /\ j < i)})

\* the sequence s reordered by descending keys, stable
SortDescBy(s, keys) ==
    [p \in 1..Len(s) |-> s[CHOOSE i \in 1..Len(s) : SortRank(keys, i) = p]]

RECURSIVE Join(_)
\* ''.join(chars)
Join(cs) == IF cs = <<>> THEN "" ELSE Head(cs) \o Join(Tail(cs))

\* round(n/d, 0) for d > 0 as Python's round does on an exactly representable
\* quotient: to nearest, ties to even
RoundHalfEven(n, d) ==
    LET q == n \div d
        r == n % d
    IN  IF 2 * r < d THEN q
        ELSE IF 2 * r > d THEN q + 1
        ELSE IF q % 2 = 0 THEN q ELSE q + 1

\* ------------------------------------------------------------------------
\* KeywordExtractionService.extract_keywords_from_text
\* ------------------------------------------------------------------------

UpperChars == <<"A","B","C","D","E","F","G","H","I","J","K","L","M",
                "N","O","P","Q","R","S","T","U","V","W","X","Y","Z">>

LowerChars == <<"a","b","c","d","e","f","g","h","i","j","k","l","m",
                "n","o","p","q","r","s","t","u","v","w","x","y","z">>

DigitChars == {"0","1","2","3","4","5","6","7","8","9"}

\* [a-z]
IsLower(c) == c \in Range(LowerChars)

\* \w
IsWordChar(c) == IsLower(c) \/ c \in Range(UpperChars) \/ c \in DigitChars \/ c = "_"

\* \S
IsNonSpace(c) == c \notin {" ", "\n", "\t"}

\* str.lower() of one character
LowerChar(c) ==
    IF c \in Range(UpperChars)
    THEN LowerChars[CHOOSE i \in 1..26 : UpperChars[i] = c]
    ELSE c

\* text.lower()
Lower(t) == [i \in 1..Len(t) |-> LowerChar(t[i])]

\* end of the greedy run of characters satisfying P that starts at i (t[i] satisfies P)
RunEnd(t, i, P(_)) ==
    CHOOSE e \in i..Len(t) :
        /\ \A k \in i..e : P(t[k])
        /\ (e = Len(t) \/ ~P(t[e + 1]))

\* last index of a match of  http\S+|www.\S+  starting at i, 0 when there is none
UrlMatchEnd(t, i) ==
    IF /\ i + 4 <= Len(t)
       /\ SubSeq(t, i, i + 3) = <<"h","t","t","p">>
       /\ IsNonSpace(t[i + 4])
    THEN RunEnd(t, i + 4, IsNonSpace)
    ELSE IF /\ i + 4 <= Len(t)
            /\ SubSeq(t, i, i + 2) = <<"w","w","w">>
            /\ t[i + 3] # "\n"
            /\ IsNonSpace(t[i + 4])
    THEN RunEnd(t, i + 4, IsNonSpace)
    ELSE 0

RECURSIVE RemoveUrlsFrom(_, _)
RemoveUrlsFrom(t, i) ==
    IF i > Len(t) THEN <<>>
    ELSE LET e == UrlMatchEnd(t, i)
         IN  IF e > 0 THEN RemoveUrlsFrom(t, e + 1)
             ELSE <<t[i]>> \o RemoveUrlsFrom(t, i + 1)

\* re.sub(r'http\S+|www.\S+', '', text)
RemoveUrls(t) == RemoveUrlsFrom(t, 1)

\* variant of TokenMatchEnd: plain words one letter shorter are matched
TokenMatchEnd_short(t, i, min_length) ==
    IF t[i] \in {"#", "@"}
    THEN IF i + 1 <= Len(t) /\ IsWordChar(t[i + 1])
         THEN RunEnd(t, i + 1, IsWordChar) ELSE 0
    ELSE IF IsLower(t[i]) /\ (i = 1 \/ ~IsWordChar(t[i - 1]))
    THEN LET e == RunEnd(t, i, IsLower)
         IN  IF e - i + 1 >= min_length - 1 /\ (e = Len(t) \/ ~IsWordChar(t[e + 1]))
             THEN e ELSE 0
    ELSE 0

\* last index of a match of  #\w+|@\w+|\b[a-z]{min_length,}\b  starting at i, 0 when none
TokenMatchEnd(t, i, min_length) ==
    IF t[i] \in {"#", "@"}
    THEN IF i + 1 <= Len(t) /\ IsWordChar(t[i + 1])
         THEN RunEnd(t, i + 1, IsWordChar) ELSE 0
    ELSE IF IsLower(t[i]) /\ (i = 1 \/ ~IsWordChar(t[i - 1]))
    THEN LET e == RunEnd(t, i, IsLower)
         IN  IF e - i + 1 >= min_length /\ (e = Len(t) \/ ~IsWordChar(t[e + 1]))
             THEN e ELSE 0
    ELSE 0

RECURSIVE FindAllFrom(_, _, _)
FindAllFrom(t, i, min_length) ==
    IF i > Len(t) THEN <<>>
    ELSE LET e == TokenMatchEnd(t, i, min_length)
         IN  IF e > 0 THEN <<SubSeq(t, i, e)>> \o FindAllFrom(t, e + 1, min_length)
             ELSE FindAllFrom(t, i + 1, min_length)

\* re.findall(r'#\w+|@\w+|\b[a-z]{min_length,}\b', text): the matches, left to right,
\* each a sequence of characters
FindAll(t, min_length) == FindAllFrom(t, 1, min_length)

stop_words ==
    {"the", "be", "to", "of", "and", "a", "in", "that", "have", "i",
     "it", "for", "not", "on", "with", "he", "as", "you", "do", "at",
     "this", "but", "his", "by", "from", "they", "we", "say", "her", "she",
     "or", "an", "will", "my", "one", "all", "would", "there", "their",
     "what", "so", "up", "out", "if", "about", "who", "get", "which", "go",
     "me", "when", "make", "can", "like", "time", "no", "just", "him", "know",
     "take", "people", "into", "year", "your", "good", "some", "could", "them",
     "see", "other", "than", "then", "now", "look", "only", "come", "its", "over",
     "think", "also", "back", "after", "use", "two", "how", "our", "work", "first",
     "well", "way", "even", "new", "want", "because", "any", "these", "give", "day",
     "most", "us", "is", "was", "are", "been", "has", "had", "were", "said", "did",
     "having", "may", "should", "am", "being", "does", "doing"}

\* word.startswith('#') or word.startswith('@')
IsTag(w) == Head(w) \in {"#", "@"}

\* variant of KeepWord: the test against stop_words is missing
KeepWord_all(w) == TRUE

\* one pass of the filter loop: hashtags and mentions are kept, plain words
\* unless they are stop words
KeepWord(w) == IsTag(w) \/ Join(w) \notin stop_words

\* the keywords list built by the filter loop
FilterWords(words) ==
    LET kept == SelectSeq(words, KeepWord)
    IN  [i \in 1..Len(kept) |-> Join(kept[i])]

\* number of occurrences of w in the sequence ws
CountOf(ws, w) == Cardinality({i \in 1..Len(ws) : ws[i] = w})

RECURSIVE FirstSeenFrom(_, _)
FirstSeenFrom(ws, seen) ==
    IF ws = <<>> THEN <<>>
    ELSE IF Head(ws) \in seen THEN FirstSeenFrom(Tail(ws), seen)
    ELSE <<Head(ws)>> \o FirstSeenFrom(Tail(ws), seen \cup {Head(ws)})

\* the distinct elements of ws in order of first occurrence (dict insertion order)
FirstSeen(ws) == FirstSeenFrom(ws, {})

\* variant of MostCommon: words of equal count come out last seen first
MostCommon_lastseen(ws, max_keywords) ==
    LET fs == FirstSeen(ws)
        ds == [i \in 1..Len(fs) |-> fs[Len(fs) + 1 - i]]
        counts == [i \in 1..Len(ds) |-> CountOf(ws, ds[i])]
    IN  Take(SortDescBy(ds, counts), max_keywords)

\* variant of MostCommon: a word is returned as often as it occurs
MostCommon_repeated(ws, max_keywords) ==
    LET counts == [i \in 1..Len(ws) |-> CountOf(ws, ws[i])]
    IN  Take(SortDescBy(ws, counts), max_keywords)

\* Counter(keywords).most_common(max_keywords), the words only
MostCommon(ws, max_keywords) ==
    LET ds == FirstSeen(ws)
        counts == [i \in 1..Len(ds) |-> CountOf(ws, ds[i])]
    IN  Take(SortDescBy(ds, counts), max_keywords)

extract_keywords_from_text(text, min_length, max_keywords) ==
    IF text = <<>> THEN <<>>
    ELSE MostCommon(FilterWords(FindAll(RemoveUrls(Lower(text)), min_length)),
                    max_keywords)

\* ------------------------------------------------------------------------
\* The content table.  A row is [id, user_id, text, created_at]; text stands for
\* the row's title and body joined by one space, created_at counts days.
\* The sequence is the order in which the store returns rows.
\* ------------------------------------------------------------------------

\* number of days of the lookback windows
ExtractDays == 7
RecentDays == 3
OlderDays == 7
TopDays == 7

\* .eq('user_id', user_id).gte('created_at', cutoff)
ContentSince(rows, user_id, cutoff) ==
    SelectSeq(rows, LAMBDA row : row.user_id = user_id /\ row.created_at >= cutoff)

\* variant of ContentBetween: .lte('created_at', hi)
ContentBetween_closed(rows, user_id, lo, hi) ==
    SelectSeq(rows, LAMBDA row : /\ row.user_id = user_id
                                 /\ row.created_at >= lo
                                 /\ row.created_at <= hi)

\* .eq('user_id', user_id).gte('created_at', lo).lt('created_at', hi)
ContentBetween(rows, user_id, lo, hi) ==
    SelectSeq(rows, LAMBDA row : /\ row.user_id = user_id
                                 /\ row.created_at >= lo
                                 /\ row.created_at < hi)

\* ------------------------------------------------------------------------
\* KeywordExtractionService.extract_keywords_from_content
\* ------------------------------------------------------------------------

DefaultMinLength == 3
DefaultMaxKeywords == 20

RECURSIVE KeywordMentions(_)
\* the (keyword, content id) pairs in the order the two nested loops append them
KeywordMentions(rows) ==
    IF rows = <<>> THEN <<>>
    ELSE LET item == Head(rows)
             keywords == extract_keywords_from_text(item.text, DefaultMinLength,
                                                    DefaultMaxKeywords)
         IN  [i \in 1..Len(keywords) |-> [keyword |-> keywords[i], id |-> item.id]]
             \o KeywordMentions(Tail(rows))

\* keyword_content_map[keyword]: the list of content ids appended for keyword
ContentIdsOf(mentions, keyword) ==
    LET hits == SelectSeq(mentions, LAMBDA m : m.keyword = keyword)
    IN  [i \in 1..Len(hits) |-> hits[i].id]

\* variant of TrendingUnsorted: one tuple per mention instead of one per dictionary key
TrendingUnsorted_permention(mentions, min_mentions) ==
    LET keys == [i \in 1..Len(mentions) |-> mentions[i].keyword]
        all == [i \in 1..Len(keys) |->
                   LET content_ids == ContentIdsOf(mentions, keys[i])
                   IN  [keyword |-> keys[i],
                        mention_count |-> Len(content_ids),
                        content_ids |-> Range(content_ids)]]
    IN  SelectSeq(all, LAMBDA kw : kw.mention_count >= min_mentions)

\* variant of TrendingUnsorted: mention_count > min_mentions
TrendingUnsorted_strict(mentions, min_mentions) ==
    LET keys == FirstSeen([i \in 1..Len(mentions) |-> mentions[i].keyword])
        all == [i \in 1..Len(keys) |->
                   LET content_ids == ContentIdsOf(mentions, keys[i])
                   IN  [keyword |-> keys[i],
                        mention_count |-> Len(content_ids),
                        content_ids |-> Range(content_ids)]]
    IN  SelectSeq(all, LAMBDA kw : kw.mention_count > min_mentions)

\* the tuples (keyword, mention_count, unique_content_ids) that pass min_mentions,
\* in the insertion order of keyword_content_map
TrendingUnsorted(mentions, min_mentions) ==
    LET keys == FirstSeen([i \in 1..Len(mentions) |-> mentions[i].keyword])
        all == [i \in 1..Len(keys) |->
                   LET content_ids == ContentIdsOf(mentions, keys[i])
                   IN  [keyword |-> keys[i],
                        mention_count |-> Len(content_ids),
                        content_ids |-> Range(content_ids)]]
    IN  SelectSeq(all, LAMBDA kw : kw.mention_count >= min_mentions)

\* query_ok = FALSE: the content query raises, which the except clause turns into []
extract_keywords_from_content(rows, user_id, today, days, min_mentions, query_ok) ==
    IF ~query_ok THEN <<>>
    ELSE LET data == ContentSince(rows, user_id, today - days)
         IN  IF data = <<>> THEN <<>>
             ELSE LET trending == TrendingUnsorted(KeywordMentions(data), min_mentions)
                  IN  SortDescBy(trending,
                                 [i \in 1..Len(trending) |-> trending[i].mention_count])

\* ------------------------------------------------------------------------
\* TrendService.calculate_trend_score
\* mentions: integer; google and velocity: hundredths; result: hundredths
\* ------------------------------------------------------------------------

MentionsSaturation == 50
VelocitySaturation == 5

\* variant of normalized_mentions: no cap at 100
normalized_mentions_uncapped(content_mentions) ==
    (content_mentions * 100000) \div MentionsSaturation

\* min(content_mentions / 50.0 * 100, 100), in thousandths
normalized_mentions(content_mentions) ==
    Min((content_mentions * 100000) \div MentionsSaturation, 100000)

\* variant of normalized_velocity: the sign of the velocity is kept
normalized_velocity_signed(velocity) ==
    IF velocity # 0
    THEN Min((velocity * 1000) \div VelocitySaturation, 100000)
    ELSE 0

\* min(abs(velocity) / 5.0 * 100, 100) if velocity else 0, in thousandths
\* (velocity in hundredths: |v| / 5 * 100 is 1000 * |V| / 5 thousandths)
normalized_velocity(velocity) ==
    IF velocity # 0
    THEN Min((Abs(velocity) * 1000) \div VelocitySaturation, 100000)
    ELSE 0

\* the weighted sum, in ten-thousandths (weights 4/10, 4/10, 2/10)
WeightedScore(content_mentions, google_trends_score, velocity) ==
    normalized_mentions(content_mentions) * 4
    + (google_trends_score * 10) * 4
    + normalized_velocity(velocity) * 2

\* round(score, 2)
calculate_trend_score(content_mentions, google_trends_score, velocity) ==
    RoundHalfEven(WeightedScore(content_mentions, google_trends_score, velocity), 100)

\* ------------------------------------------------------------------------
\* TrendService.calculate_velocity
\* ------------------------------------------------------------------------

\* keyword in text, for a keyword string and a text of characters
Contains(text, keyword) ==
    \E i \in 1..(Len(text) - Len(keyword) + 1) :
        Join(SubSeq(text, i, i + Len(keyword) - 1)) = keyword

\* the counting loop over the rows of one query
CountMentions(data, keyword) ==
    Cardinality({i \in 1..Len(data) : Contains(Lower(data[i].text), keyword)})

\* last RecentDays days
RecentMentions(rows, user_id, keyword, today) ==
    CountMentions(ContentSince(rows, user_id, today - RecentDays), keyword)

\* the days before, back to OlderDays
OlderMentions(rows, user_id, keyword, today) ==
    CountMentions(ContentBetween(rows, user_id, today - OlderDays, today - RecentDays),
                  keyword)

\* n / d rounded to hundredths; dividing by zero raises
Quotient(n, d) ==
    IF d = 0 THEN [raised |-> TRUE, value |-> 0]
    ELSE [raised |-> FALSE, value |-> RoundHalfEven(100 * n, d)]

\* variant of VelocityOf: no test of older_mentions before the division
VelocityOf_unguarded(recent_mentions, older_mentions) ==
    Quotient(recent_mentions - older_mentions, older_mentions)

\* the if/else on older_mentions followed by round(velocity, 2)
VelocityOf(recent_mentions, older_mentions) ==
    IF older_mentions = 0
    THEN [raised |-> FALSE,
          value |-> IF recent_mentions > 0 THEN 100 * recent_mentions ELSE 0]
    ELSE Quotient(recent_mentions - older_mentions, older_mentions)

\* the try/except around it: a failed query or an exception gives 0.0
VelocityFromCounts(recent_mentions, older_mentions, query_ok) ==
    LET velocity == VelocityOf(recent_mentions, older_mentions)
    IN  IF ~query_ok \/ velocity.raised THEN 0 ELSE velocity.value

calculate_velocity(rows, user_id, keyword, today, query_ok) ==
    VelocityFromCounts(RecentMentions(rows, user_id, keyword, today),
                       OlderMentions(rows, user_id, keyword, today),
                       query_ok)

\* ------------------------------------------------------------------------
\* GoogleTrendsService.get_interest_over_time / batch_get_interest
\* A provider outcome is [kind |-> "error"], [kind |-> "empty"] or
\* [kind |-> "data", mean |-> a function from the columns of the data frame to
\* the rounded mean interest in hundredths].
\* ------------------------------------------------------------------------

BatchSize == 5

\* dict.update
Update(results, more) ==
    [k \in DOMAIN results \cup DOMAIN more |->
        IF k \in DOMAIN more THEN more[k] ELSE results[k]]

\* variant of get_interest_over_time: an empty dictionary on a provider error
get_interest_over_time_noentry(keywords, outcome) ==
    LET kws == Take(keywords, BatchSize)
    IN  IF keywords = <<>> THEN <<>>
        ELSE IF outcome.kind = "error" THEN <<>>
        ELSE IF outcome.kind = "empty" THEN [kw \in Range(kws) |-> 0]
        ELSE [kw \in Range(kws) |->
                 IF kw \in DOMAIN outcome.mean THEN outcome.mean[kw] ELSE 0]

get_interest_over_time(keywords, outcome) ==
    LET kws == Take(keywords, BatchSize)
    IN  IF keywords = <<>> THEN <<>>
        ELSE IF outcome.kind = "error" THEN [kw \in Range(kws) |-> 0]
        ELSE IF outcome.kind = "empty" THEN [kw \in Range(kws) |-> 0]
        ELSE [kw \in Range(kws) |->
                 IF kw \in DOMAIN outcome.mean THEN outcome.mean[kw] ELSE 0]

\* keywords[i:i+5] for the b-th batch, b = 1, 2, ...
Batch(keywords, b) ==
    SubSeq(keywords, (b - 1) * BatchSize + 1, Min(b * BatchSize, Len(keywords)))

\* number of iterations of  for i in range(0, len(keywords), 5)
NumBatches(keywords) == (Len(keywords) + BatchSize - 1) \div BatchSize

RECURSIVE BatchLoop(_, _, _, _)
\* the loop from batch b on, results being the dictionary built so far
BatchLoop(keywords, outcomes, b, results) ==
    IF b > NumBatches(keywords) THEN results
    ELSE BatchLoop(keywords, outcomes, b + 1,
                   Update(results, get_interest_over_time(Batch(keywords, b),
                                                          outcomes[b])))

\* outcomes[b] is what the provider does with the b-th batch
batch_get_interest(keywords, outcomes) ==
    IF keywords = <<>> THEN <<>>
    ELSE BatchLoop(keywords, outcomes, 1, <<>>)

\* ------------------------------------------------------------------------
\* TrendService.detect_trends
\* env says what the collaborators do after the extraction:
\*   env.outcomes        the provider outcome of each batch
\*   env.velocity_ok     the keywords whose velocity queries succeed
\* ------------------------------------------------------------------------

DetectMinMentions == 2
GoogleCap == 20

\* step 1: extract_keywords_from_content(user_id=user_id, days=7, min_mentions=2)
TrendingKeywords(rows, user_id, today, content_ok) ==
    extract_keywords_from_content(rows, user_id, today, ExtractDays, DetectMinMentions,
                                  content_ok)

\* variant of Candidates: every trending keyword is a candidate
Candidates_all(trending_keywords, max_trends) == trending_keywords

\* step 2: trending_keywords[:max_trends * 2]
Candidates(trending_keywords, max_trends) == Take(trending_keywords, max_trends * 2)

\* top_keywords[:20]
GoogleKeywords(trending_keywords, max_trends) ==
    LET candidates == Candidates(trending_keywords, max_trends)
    IN  Take([i \in 1..Len(candidates) |-> candidates[i].keyword], GoogleCap)

\* google_scores.get(keyword, 0.0)
GetScore(google_scores, keyword) ==
    IF keyword \in DOMAIN google_scores THEN google_scores[keyword] ELSE 0

\* one pass of the scoring loop
TrendOf(rows, user_id, today, env, google_scores, kw) ==
    LET google_score == GetScore(google_scores, kw.keyword)
        velocity == calculate_velocity(rows, user_id, kw.keyword, today,
                                       kw.keyword \in env.velocity_ok)
    IN  [keyword |-> kw.keyword,
         score |-> calculate_trend_score(kw.mention_count, google_score, velocity),
         google_trends_score |-> google_score,
         content_mentions |-> kw.mention_count,
         velocity |-> velocity,
         related_content_ids |-> kw.content_ids]

\* variant of detect_trends: the sorted list is returned whole
detect_trends_uncut(trending_keywords, rows, user_id, max_trends, today, env) ==
    IF trending_keywords = <<>> THEN <<>>
    ELSE LET candidates == Candidates(trending_keywords, max_trends)
             google_scores ==
                 batch_get_interest(GoogleKeywords(trending_keywords, max_trends),
                                    env.outcomes)
             trends_ == [i \in 1..Len(candidates) |->
                           TrendOf(rows, user_id, today, env, google_scores,
                                   candidates[i])]
         IN  SortDescBy(trends_, [i \in 1..Len(trends_) |-> trends_[i].score])

\* detect_trends from the list step 1 returned
detect_trends(trending_keywords, rows, user_id, max_trends, today, env) ==
    IF trending_keywords = <<>> THEN <<>>
    ELSE LET candidates == Candidates(trending_keywords, max_trends)
             google_scores ==
                 batch_get_interest(GoogleKeywords(trending_keywords, max_trends),
                                    env.outcomes)
             trends_ == [i \in 1..Len(candidates) |->
                           TrendOf(rows, user_id, today, env, google_scores,
                                   candidates[i])]
             sorted == SortDescBy(trends_,
                                  [i \in 1..Len(trends_) |-> trends_[i].score])
         IN  Take(sorted, max_trends)

\* ------------------------------------------------------------------------
\* What the collaborators may do during one detect_trends call
\* ------------------------------------------------------------------------

\* a mean interest the provider reports, in hundredths
SampleMean == 7230

\* the provider fails, has no data, or has data for every keyword of the batch
ProviderOutcomes(keywords) ==
    {[kind |-> "error"], [kind |-> "empty"],
     [kind |-> "data", mean |-> [kw \in Range(keywords) |-> SampleMean]]}

\* one outcome per batch of keywords
OutcomeSeqs(keywords) ==
    LET nb == NumBatches(keywords)
        all == UNION {ProviderOutcomes(Batch(keywords, b)) : b \in 1..nb}
    IN  {o \in [1..nb -> all] : \A b \in 1..nb : o[b] \in ProviderOutcomes(Batch(keywords, b))}

Envs(trending_keywords, max_trends) ==
    LET candidates == Candidates(trending_keywords, max_trends)
    IN  {[outcomes |-> o, velocity_ok |-> v] :
            o \in OutcomeSeqs(GoogleKeywords(trending_keywords, max_trends)),
            v \in SUBSET {candidates[i].keyword : i \in 1..Len(candidates)}}

RECURSIVE SubsetsUpTo(_, _)
\* the subsets of S with at most k elements
SubsetsUpTo(S, k) ==
    IF k = 0 \/ S = {} THEN {{}}
    ELSE LET x == CHOOSE y \in S : TRUE
         IN  SubsetsUpTo(S \ {x}, k)
             \cup {F \cup {x} : F \in SubsetsUpTo(S \ {x}, k - 1)}

\* the members of Envs(trending_keywords, max_trends) in which at most faults calls
\* of the collaborators fail
EnvsWithin(trending_keywords, max_trends, faults) ==
    LET candidates == Candidates(trending_keywords, max_trends)
        keywords == {candidates[i].keyword : i \in 1..Len(candidates)}
        Errors(o) == Cardinality({b \in 1..Len(o) : o[b].kind = "error"})
    IN  {env \in {[outcomes |-> o, velocity_ok |-> keywords \ F] :
                     o \in OutcomeSeqs(GoogleKeywords(trending_keywords, max_trends)),
                     F \in SubsetsUpTo(keywords, faults)} :
            Errors(env.outcomes) + Cardinality(keywords \ env.velocity_ok) <= faults}

\* the logger.error lines of one detect_trends call, in the order they are written
LogEntry(at, keyword) == [at |-> at, keyword |-> keyword]

DetectLog(trending_keywords, max_trends, content_ok, env) ==
    IF ~content_ok THEN <<LogEntry("extract_keywords_from_content", "")>>
    ELSE LET candidates == Candidates(trending_keywords, max_trends)
             failed == SelectSeq(env.outcomes, LAMBDA o : o.kind = "error")
             slow == SelectSeq(candidates, LAMBDA kw : kw.keyword \notin env.velocity_ok)
         IN  [i \in 1..Len(failed) |-> LogEntry("get_interest_over_time", "")]
             \o [i \in 1..Len(slow) |-> LogEntry("calculate_velocity", slow[i].keyword)]

\* ------------------------------------------------------------------------
\* The trends table and TrendService.get_top_trends
\* A row is [id, user_id, keyword, score, google_trends_score, content_mentions,
\* velocity, related_content_ids, detected_at, created_at, updated_at].
\* ------------------------------------------------------------------------

\* variant of TrendsOf: the filter on user_id is missing
TrendsOf_anyuser(rows, user_id, keyword) ==
    {t \in rows : t.keyword = keyword}

\* variant of TrendsOf: the two filters compare with the same argument
TrendsOf_samearg(rows, user_id, keyword) ==
    {t \in rows : t.user_id = keyword /\ t.keyword = keyword}

\* .eq('user_id', user_id).eq('keyword', keyword)
TrendsOf(rows, user_id, keyword) ==
    {t \in rows : t.user_id = user_id /\ t.keyword = keyword}

\* variant of TrendsSince: the filter on detected_at is missing
TrendsSince_nocutoff(rows, user_id, cutoff) ==
    {t \in rows : t.user_id = user_id}

\* .eq('user_id', user_id).gte('detected_at', cutoff)
TrendsSince(rows, user_id, cutoff) ==
    {t \in rows : t.user_id = user_id /\ t.detected_at >= cutoff}

\* variant of TopLists: ascending order
TopLists_asc(rows, limit) ==
    LET n == Min(limit, Cardinality(rows))
    IN  {l \in [1..n -> rows] :
            /\ \A i, j \in 1..n : i < j => l[i] # l[j] /\ l[i].score <= l[j].score
            /\ \A t \in rows : t \in Range(l) \/ \A i \in 1..n : l[i].score <= t.score}

\* the lists .order('score', desc=True).limit(limit) may return: rows of equal score
\* come in any order
TopLists(rows, limit) ==
    LET n == Min(limit, Cardinality(rows))
    IN  {l \in [1..n -> rows] :
            /\ \A i, j \in 1..n : i < j => l[i] # l[j] /\ l[i].score >= l[j].score
            /\ \A t \in rows : t \in Range(l) \/ \A i \in 1..n : l[i].score >= t.score}

\* the lists get_top_trends may return
get_top_trends(rows, user_id, limit, today) ==
    TopLists(TrendsSince(rows, user_id, today - TopDays), limit)

\* ------------------------------------------------------------------------
\* TrendService.detect_and_save_trends, step by step
\* ------------------------------------------------------------------------

Users == {"A", "B"}

\* callers that may have a detect_and_save_trends call in progress
NumCallers == 2
Callers == 1..NumCallers

\* number of detect_and_save_trends calls in one behaviour
MaxCalls == 2

\* number of collaborator failures (a query, the provider, a write) in one behaviour
MaxFaults == 2

\* the day the clock starts at, and the number of days that may pass
FirstDay == 10
MaxTicks == 1
MaxDay == FirstDay + MaxTicks

SaveMaxTrends == 10
SummaryTop == 3

None == [id |-> 0]

IdleRun ==
    [pc |-> "idle", user_id |-> "", trends |-> <<>>, i |-> 0, existing |-> None,
     saved_count |-> 0, detected_at |-> 0, log |-> <<>>, result |-> <<>>]

\* variant of Summary: the top_3 key is missing
Summary_notop(detected, saved, top_3) ==
    [detected |-> detected, saved |-> saved]

\* the dictionary detect_and_save_trends returns
Summary(detected, saved, top_3) ==
    [detected |-> detected, saved |-> saved,
     top_3 |-> [i \in 1..Len(top_3) |->
                   [keyword |-> top_3[i].keyword, score |-> top_3[i].score]]]

\* a caller invokes detect_and_save_trends(user_id)
Start(r, user_id) ==
    /\ run[r].pc \in {"idle", "done"}
    /\ calls_left > 0
    /\ calls_left' = calls_left - 1
    /\ run' = [run EXCEPT ![r] = [IdleRun EXCEPT !.pc = "detect", !.user_id = user_id]]
    /\ UNCHANGED <<drafts, sends, zone_days, content, trends, next_id, now, faults_left, call, ret>>

\* variant of Detect: an empty list is passed on to save_trends and get_top_trends
Detect_noreturn(r) ==
    /\ run[r].pc = "detect"
    /\ \E content_ok \in BOOLEAN :
         \E trending_keywords \in {TrendingKeywords(content, run[r].user_id, now, content_ok)} :
             \E env \in EnvsWithin(trending_keywords, SaveMaxTrends, faults_left) :
               LET found == detect_trends(trending_keywords, content, run[r].user_id,
                                          SaveMaxTrends, now, env)
                   log == DetectLog(trending_keywords, SaveMaxTrends, content_ok, env)
               IN  /\ Len(log) <= faults_left
                   /\ faults_left' = faults_left - Len(log)
                   /\ run' = [run EXCEPT ![r] =
                                 [@ EXCEPT !.pc = "save", !.log = log,
                                           !.trends = found]]
    /\ UNCHANGED <<drafts, sends, zone_days, content, trends, next_id, now, calls_left, call, ret>>

\* trends = await self.detect_trends(user_id, max_trends=10); if not trends: return ...
Detect(r) ==
    /\ run[r].pc = "detect"
    /\ \E content_ok \in BOOLEAN :
         \E trending_keywords \in {TrendingKeywords(content, run[r].user_id, now, content_ok)} :
             \E env \in EnvsWithin(trending_keywords, SaveMaxTrends, faults_left) :
               LET found == detect_trends(trending_keywords, content, run[r].user_id,
                                          SaveMaxTrends, now, env)
                   log == DetectLog(trending_keywords, SaveMaxTrends, content_ok, env)
               IN  /\ Len(log) <= faults_left
                   /\ faults_left' = faults_left - Len(log)
                   /\ run' = [run EXCEPT ![r] =
                                 IF found = <<>>
                                 THEN [@ EXCEPT !.pc = "done", !.log = log,
                                                !.result = Summary(0, 0, <<>>)]
                                 ELSE [@ EXCEPT !.pc = "save", !.log = log,
                                                !.trends = found]]
    /\ UNCHANGED <<drafts, sends, zone_days, content, trends, next_id, now, calls_left, call, ret>>

\* variant of SaveBegin: the rows of the owner are deleted before the loop
SaveBegin_replace(r) ==
    /\ run[r].pc = "save"
    /\ run' = [run EXCEPT ![r] =
                  IF run[r].trends = <<>>
                  THEN [@ EXCEPT !.pc = "top", !.saved_count = 0]
                  ELSE [@ EXCEPT !.pc = "lookup", !.i = 1,
                                 !.saved_count = 0, !.detected_at = now]]
    /\ trends' = {t \in trends : t.user_id # run[r].user_id}
    /\ UNCHANGED <<drafts, sends, zone_days, content, next_id, now, calls_left, faults_left, call, ret>>

\* save_trends up to the loop: if not trends: return 0; saved_count = 0;
\* detected_at = datetime.now()
SaveBegin(r) ==
    /\ run[r].pc = "save"
    /\ run' = [run EXCEPT ![r] =
                  IF run[r].trends = <<>>
                  THEN [@ EXCEPT !.pc = "top", !.saved_count = 0]
                  ELSE [@ EXCEPT !.pc = "lookup", !.i = 1,
                                 !.saved_count = 0, !.detected_at = now]]
    /\ UNCHANGED <<drafts, sends, zone_days, content, trends, next_id, now, calls_left, faults_left, call, ret>>

\* where the loop goes after the i-th trend
AfterTrend(r) == IF run[r].i < Len(run[r].trends) THEN "lookup" ELSE "top"

\* variant of SkipTrend: the except clause leaves the loop
SkipTrend_break(r) ==
    run' = [run EXCEPT ![r] =
               [@ EXCEPT !.pc = "top", !.i = @ + 1, !.existing = None,
                         !.log = Append(@, LogEntry("save_trends",
                                                    run[r].trends[run[r].i].keyword))]]

\* the except clause of the loop body: log, continue
SkipTrend(r) ==
    run' = [run EXCEPT ![r] =
               [@ EXCEPT !.pc = AfterTrend(r), !.i = @ + 1, !.existing = None,
                         !.log = Append(@, LogEntry("save_trends",
                                                    run[r].trends[run[r].i].keyword))]]

\* variant of CountTrend: saved_count += 2
CountTrend_twice(r) ==
    run' = [run EXCEPT ![r] =
               [@ EXCEPT !.pc = AfterTrend(r), !.i = @ + 1, !.existing = None,
                         !.saved_count = @ + 2]]

\* saved_count += 1 and on to the next trend
CountTrend(r) ==
    run' = [run EXCEPT ![r] =
               [@ EXCEPT !.pc = AfterTrend(r), !.i = @ + 1, !.existing = None,
                         !.saved_count = @ + 1]]

\* existing = select('id').eq('user_id', ...).eq('keyword', ...).execute()
Lookup(r) ==
    /\ run[r].pc = "lookup"
    /\ LET found == TrendsOf(trends, run[r].user_id, run[r].trends[run[r].i].keyword)
       IN  \E first \in IF found = {} THEN {None} ELSE {[id |-> t.id] : t \in found} :
               run' = [run EXCEPT ![r] = [@ EXCEPT !.pc = "write", !.existing = first]]
    /\ UNCHANGED <<drafts, sends, zone_days, content, trends, next_id, now, calls_left, faults_left, call, ret>>

\* the select raises
LookupFail(r) ==
    /\ run[r].pc = "lookup"
    /\ faults_left > 0
    /\ faults_left' = faults_left - 1
    /\ SkipTrend(r)
    /\ UNCHANGED <<drafts, sends, zone_days, content, trends, next_id, now, calls_left, call, ret>>

\* variant of UpdatedRow: created_at is written as well
UpdatedRow_recreated(t, trend_data, detected_at) ==
    [t EXCEPT !.score = trend_data.score,
              !.google_trends_score = trend_data.google_trends_score,
              !.content_mentions = trend_data.content_mentions,
              !.velocity = trend_data.velocity,
              !.related_content_ids = trend_data.related_content_ids,
              !.detected_at = detected_at,
              !.created_at = detected_at]

\* the fields update() writes: updated_at is not among them
UpdatedRow(t, trend_data, detected_at) ==
    [t EXCEPT !.score = trend_data.score,
              !.google_trends_score = trend_data.google_trends_score,
              !.content_mentions = trend_data.content_mentions,
              !.velocity = trend_data.velocity,
              !.related_content_ids = trend_data.related_content_ids,
              !.detected_at = detected_at]

\* the row insert() creates; id, created_at and updated_at are the store's defaults
InsertedRow(id, user_id, trend_data, detected_at, today) ==
    [id |-> id, user_id |-> user_id, keyword |-> trend_data.keyword,
     score |-> trend_data.score,
     google_trends_score |-> trend_data.google_trends_score,
     content_mentions |-> trend_data.content_mentions,
     velocity |-> trend_data.velocity,
     related_content_ids |-> trend_data.related_content_ids,
     detected_at |-> detected_at, created_at |-> today, updated_at |-> today]

\* if existing.data: update(...).eq('id', existing.data[0]['id'])
UpdateTrend(r) ==
    /\ run[r].pc = "write"
    /\ run[r].existing # None
    /\ trends' = {IF t.id = run[r].existing.id
                  THEN UpdatedRow(t, run[r].trends[run[r].i], run[r].detected_at)
                  ELSE t : t \in trends}
    /\ CountTrend(r)
    /\ UNCHANGED <<drafts, sends, zone_days, content, next_id, now, calls_left, faults_left, call, ret>>

\* else: insert(...)
InsertTrend(r) ==
    /\ run[r].pc = "write"
    /\ run[r].existing = None
    /\ trends' = trends \cup {InsertedRow(next_id, run[r].user_id,
                                          run[r].trends[run[r].i],
                                          run[r].detected_at, now)}
    /\ next_id' = next_id + 1
    /\ CountTrend(r)
    /\ UNCHANGED <<drafts, sends, zone_days, content, now, calls_left, faults_left, call, ret>>

\* the update or the insert raises
WriteFail(r) ==
    /\ run[r].pc = "write"
    /\ faults_left > 0
    /\ faults_left' = faults_left - 1
    /\ SkipTrend(r)
    /\ UNCHANGED <<drafts, sends, zone_days, content, trends, next_id, now, calls_left, call, ret>>

\* top_3 = await self.get_top_trends(user_id, limit=3); return {...}
ReturnSummary(r) ==
    /\ run[r].pc = "top"
    /\ \E top_3 \in get_top_trends(trends, run[r].user_id, SummaryTop, now) :
           run' = [run EXCEPT ![r] =
                      [@ EXCEPT !.pc = "done",
                                !.result = Summary(Len(run[r].trends),
                                                   run[r].saved_count, top_3)]]
    /\ UNCHANGED <<drafts, sends, zone_days, content, trends, next_id, now, calls_left, faults_left, call, ret>>

\* the select of get_top_trends raises: it logs and returns []
ReturnSummaryNoTop(r) ==
    /\ run[r].pc = "top"
    /\ faults_left > 0
    /\ faults_left' = faults_left - 1
    /\ run' = [run EXCEPT ![r] =
                  [@ EXCEPT !.pc = "done",
                            !.log = Append(@, LogEntry("get_top_trends", "")),
                            !.result = Summary(Len(run[r].trends),
                                               run[r].saved_count, <<>>)]]
    /\ UNCHANGED <<drafts, sends, zone_days, content, trends, next_id, now, calls_left, call, ret>>

\* a day passes
Tick ==
    /\ now < MaxDay
    /\ now' = now + 1
    /\ UNCHANGED <<drafts, sends, zone_days, content, trends, next_id, run, calls_left, faults_left, call, ret>>

\* ------------------------------------------------------------------------
\* Callers of detect_and_save_trends over a fixed content table
\* ------------------------------------------------------------------------

ContentRow(id, user_id, text, created_at) ==
    [id |-> id, user_id |-> user_id, text |-> text, created_at |-> created_at]

\* "AI robots #ai", "ai robots", "ai #ai crypto" of A; "Robots rock", "robots" of B
Corpus ==
    << ContentRow(1, "A", <<"A","I"," ","r","o","b","o","t","s"," ","#","a","i">>,
                  FirstDay - 1),
       ContentRow(2, "A", <<"a","i"," ","r","o","b","o","t","s">>, FirstDay - 1),
       ContentRow(3, "A", <<"a","i"," ","#","a","i"," ","c","r","y","p","t","o">>,
                  FirstDay - 7),
       ContentRow(4, "B", <<"R","o","b","o","t","s"," ","r","o","c","k">>, FirstDay - 1),
       ContentRow(5, "B", <<"r","o","b","o","t","s">>, FirstDay - 2) >>

NoCall == [fn |-> "none"]
NoReturn == [returned |-> FALSE, raised |-> FALSE, value |-> "none"]

\* the call returned value
Returned(value) == [returned |-> TRUE, raised |-> FALSE, value |-> value]

\* the tables are empty and nobody calls detect_and_save_trends
NoService ==
    /\ content = <<>>
    /\ trends = {}
    /\ next_id = 1
    /\ now = FirstDay
    /\ drafts = {}
    /\ sends = {}
    /\ zone_days = 0
    /\ run = [r \in Callers |-> IdleRun]
    /\ calls_left = 0
    /\ faults_left = 0

Init ==
    /\ content = Corpus
    /\ trends = {}
    /\ next_id = 1
    /\ now = FirstDay
    /\ drafts = {}
    /\ sends = {}
    /\ zone_days = 0
    /\ run = [r \in Callers |-> IdleRun]
    /\ calls_left = MaxCalls
    /\ faults_left = MaxFaults
    /\ call = NoCall
    /\ ret = NoReturn

Step(r) ==
    \/ Detect(r)
    \/ SaveBegin(r)
    \/ Lookup(r)
    \/ LookupFail(r)
    \/ UpdateTrend(r)
    \/ InsertTrend(r)
    \/ WriteFail(r)
    \/ ReturnSummary(r)
    \/ ReturnSummaryNoTop(r)

\* callers in separate worker processes: their store operations interleave
Next ==
    \/ \E r \in Callers, user_id \in Users : Start(r, user_id)
    \/ \E r \in Callers : Step(r)

Spec == Init /\ [][Next]_vars

\* the same callers when each call ends before the next one starts, over several days
NoCallInProgress == \A r \in Callers : run[r].pc \in {"idle", "done"}

\* the scheduler job, which awaits each call before it makes the next one
SchedulerJob == CHOOSE r \in Callers : \A q \in Callers : r <= q

StartAlone(r, user_id) == r = SchedulerJob /\ NoCallInProgress /\ Start(r, user_id)

NextSeq ==
    \/ \E r \in Callers, user_id \in Users : StartAlone(r, user_id)
    \/ \E r \in Callers : Step(r)
    \/ Tick

SpecSeq == Init /\ [][NextSeq]_vars

\* ------------------------------------------------------------------------
\* The scheduler job and the users of the API, who may delete their trends
\* ------------------------------------------------------------------------

\* number of collaborator failures in one behaviour with as many calls as owners
ApiFaults == 1

\* delete_trend(trend_id, current_user): delete().eq('user_id', ...).eq('id', ...);
\* HTTP 404 when no row matched
DeleteTrend(user_id, trend_id) ==
    /\ trends' = {t \in trends : ~(t.user_id = user_id /\ t.id = trend_id)}
    /\ UNCHANGED <<drafts, sends, zone_days, content, next_id, now, run, calls_left, faults_left, call, ret>>

InitApi ==
    /\ content = Corpus
    /\ trends = {}
    /\ next_id = 1
    /\ now = FirstDay
    /\ drafts = {}
    /\ sends = {}
    /\ zone_days = 0
    /\ run = [r \in Callers |-> IdleRun]
    /\ calls_left = Cardinality(Users)
    /\ faults_left = ApiFaults
    /\ call = NoCall
    /\ ret = NoReturn

NextApi ==
    \/ NextSeq
    \/ \E user_id \in Users, trend_id \in 1..next_id : DeleteTrend(user_id, trend_id)

SpecApi == InitApi /\ [][NextApi]_vars

\* callers in separate worker processes, as many calls as there are owners
SpecOwners == InitApi /\ [][Next]_vars

\* ------------------------------------------------------------------------
\* One call in which any of the collaborators may fail at every step, on an empty
\* trends table or on the table a failure-free call of the day before left
\* ------------------------------------------------------------------------

\* the most failures one call meets: the provider, a velocity query and a lookup or
\* write per trend, the final read
CallFaults == 6

NoFailure(trending_keywords, max_trends) ==
    [outcomes |-> [b \in 1..NumBatches(GoogleKeywords(trending_keywords, max_trends)) |->
                      [kind |-> "empty"]],
     velocity_ok |-> {trending_keywords[i].keyword : i \in 1..Len(trending_keywords)}]

\* the trends a failure-free call for user_id finds in rows
DetectedIn(rows, user_id, today) ==
    LET trending_keywords == TrendingKeywords(rows, user_id, today, TRUE)
    IN  detect_trends(trending_keywords, rows, user_id, SaveMaxTrends, today,
                      NoFailure(trending_keywords, SaveMaxTrends))

\* the table after a failure-free call for "A" on the day before FirstDay
EarlierTrends ==
    LET found == DetectedIn(Corpus, "A", FirstDay - 1)
    IN  {InsertedRow(i, "A", found[i], FirstDay - 1, FirstDay - 1) : i \in 1..Len(found)}

InitFaults ==
    /\ content = Corpus
    /\ trends \in {{}, EarlierTrends}
    /\ next_id = Cardinality(trends) + 1
    /\ now = FirstDay
    /\ drafts = {}
    /\ sends = {}
    /\ zone_days = 0
    /\ run = [r \in Callers |-> IdleRun]
    /\ calls_left = 1
    /\ faults_left = CallFaults
    /\ call = NoCall
    /\ ret = NoReturn

SpecFaults == InitFaults /\ [][NextSeq]_vars

\* ------------------------------------------------------------------------
\* Direct calls of the pure functions
\* ------------------------------------------------------------------------

\* largest content_mentions passed to calculate_trend_score
MaxMentions == 52

\* google scores and velocities passed to calculate_trend_score, in hundredths
SampleSignals == {0, 1, 2500, 4500, 7230, 9999, 10000}
SampleVelocities == {-1000, -500, -100, -50, 0, 33, 200, 499, 500, 501, 1000}

ScoreCalls ==
    {[fn |-> "calculate_trend_score", content_mentions |-> m,
      google_trends_score |-> g, velocity |-> v] :
        m \in 0..MaxMentions, g \in SampleSignals, v \in SampleVelocities}

CallScore ==
    /\ call.fn = "calculate_trend_score"
    /\ ~ret.returned
    /\ ret' = Returned(calculate_trend_score(call.content_mentions,
                                             call.google_trends_score, call.velocity))
    /\ UNCHANGED <<drafts, sends, zone_days, content, trends, next_id, now, run, calls_left, faults_left, call>>

\* largest number of rows that mention the keyword in one window
MaxCount == 7

VelocityCalls ==
    {[fn |-> "calculate_velocity", recent_mentions |-> r, older_mentions |-> o,
      query_ok |-> q] : r \in 0..MaxCount, o \in 0..MaxCount, q \in BOOLEAN}

\* calculate_velocity on a content table with the given counts in the two windows
CallVelocity ==
    /\ call.fn = "calculate_velocity"
    /\ ~ret.returned
    /\ ret' = Returned(VelocityFromCounts(call.recent_mentions, call.older_mentions,
                                          call.query_ok))
    /\ UNCHANGED <<drafts, sends, zone_days, content, trends, next_id, now, run, calls_left, faults_left, call>>

\* largest number of keywords passed to batch_get_interest
MaxKeywords == 11

KeywordPool ==
    <<"k01", "k02", "k03", "k04", "k05", "k06", "k07", "k08",
      "k09", "k10", "k11", "k12", "k13", "k14", "k15", "k16">>

\* what the provider may do with one batch: fail, no data, data for all keywords,
\* data without a column for the first keyword
BatchOutcomes(keywords) ==
    {[kind |-> "error"], [kind |-> "empty"],
     [kind |-> "data", mean |-> [kw \in Range(keywords) |-> SampleMean]],
     [kind |-> "data", mean |-> [kw \in Range(keywords) |-> 10000]],
     [kind |-> "data", mean |-> [kw \in Range(Tail(keywords)) |-> SampleMean]]}

\* one outcome per batch
BatchOutcomeSeqs(keywords) ==
    LET nb == NumBatches(keywords)
        all == UNION {BatchOutcomes(Batch(keywords, b)) : b \in 1..nb}
    IN  {o \in [1..nb -> all] : \A b \in 1..nb : o[b] \in BatchOutcomes(Batch(keywords, b))}

BatchCalls ==
    UNION {{[fn |-> "batch_get_interest", keywords |-> Take(KeywordPool, n),
             outcomes |-> o] : o \in BatchOutcomeSeqs(Take(KeywordPool, n))} :
           n \in 0..MaxKeywords}

CallBatch ==
    /\ call.fn = "batch_get_interest"
    /\ ~ret.returned
    /\ ret' = Returned(batch_get_interest(call.keywords, call.outcomes))
    /\ UNCHANGED <<drafts, sends, zone_days, content, trends, next_id, now, run, calls_left, faults_left, call>>

InitCalls ==
    /\ NoService
    /\ call \in ScoreCalls \cup VelocityCalls \cup BatchCalls
    /\ ret = NoReturn

NextCalls == CallScore \/ CallVelocity \/ CallBatch

SpecCalls == InitCalls /\ [][NextCalls]_vars

\* ------------------------------------------------------------------------
\* The loop of batch_get_interest, one step per provider request and per sleep.
\* call holds the frame of the call: its arguments, the loop variable i, the results
\* dictionary and the events so far -- the get_interest_over_time calls with their
\* keywords and the time.sleep calls with their seconds.
\* ------------------------------------------------------------------------

DelaySeconds == 2

\* variant of SleepsAfter: the delay follows every batch
SleepsAfter_always(keywords, i) == i < Len(keywords)

\* if i + 5 < len(keywords)
SleepsAfter(keywords, i) == i + BatchSize < Len(keywords)

\* keywords[i:i+5]
Slice(keywords, i) == SubSeq(keywords, i + 1, Min(i + BatchSize, Len(keywords)))

\* range(0, len(keywords), 5) has a value after i
LoopGoesOn(keywords, i) == i + BatchSize < Len(keywords)

LoopFrame(keywords, outcomes) ==
    [fn |-> "batch_get_interest", keywords |-> keywords, outcomes |-> outcomes,
     pc |-> IF keywords = <<>> THEN "return" ELSE "batch", i |-> 0,
     results |-> <<>>, events |-> <<>>]

InitLoop ==
    /\ NoService
    /\ \E n \in 0..MaxKeywords :
         \E outcomes \in BatchOutcomeSeqs(Take(KeywordPool, n)) :
             call = LoopFrame(Take(KeywordPool, n), outcomes)
    /\ ret = NoReturn

\* batch = keywords[i:i+5]; results.update(self.get_interest_over_time(batch, ...))
LoopBatch ==
    /\ call.pc = "batch"
    /\ LET batch == Slice(call.keywords, call.i)
           outcome == call.outcomes[call.i \div BatchSize + 1]
       IN  call' = [call EXCEPT
                       !.results = Update(@, get_interest_over_time(batch, outcome)),
                       !.events = Append(@, [op |-> "get_interest_over_time",
                                             keywords |-> batch]),
                       !.pc = IF SleepsAfter(call.keywords, call.i) THEN "sleep"
                              ELSE IF LoopGoesOn(call.keywords, call.i) THEN "batch"
                              ELSE "return",
                       !.i = IF SleepsAfter(call.keywords, call.i) THEN @
                             ELSE @ + BatchSize]
    /\ UNCHANGED <<drafts, sends, zone_days, content, trends, next_id, now, run, calls_left, faults_left, ret>>

\* time.sleep(2), then the next value of i
LoopSleep ==
    /\ call.pc = "sleep"
    /\ call' = [call EXCEPT
                   !.events = Append(@, [op |-> "sleep", seconds |-> DelaySeconds]),
                   !.pc = IF LoopGoesOn(call.keywords, call.i) THEN "batch"
                          ELSE "return",
                   !.i = @ + BatchSize]
    /\ UNCHANGED <<drafts, sends, zone_days, content, trends, next_id, now, run, calls_left, faults_left, ret>>

\* return results
LoopReturn ==
    /\ call.pc = "return"
    /\ call' = [call EXCEPT !.pc = "done"]
    /\ ret' = Returned(call.results)
    /\ UNCHANGED <<drafts, sends, zone_days, content, trends, next_id, now, run, calls_left, faults_left>>

SpecLoop == InitLoop /\ [][LoopBatch \/ LoopSleep \/ LoopReturn]_vars

\* ------------------------------------------------------------------------
\* Direct calls of detect_trends over content tables of NumRows rows
\* ------------------------------------------------------------------------

NumRows == 4

\* "AI robots", "ai #ai", "crypto", "the ai www.robots.io"
TextRobots == <<"A","I"," ","r","o","b","o","t","s">>
TextTag == <<"a","i"," ","#","a","i">>
TextCrypto == <<"c","r","y","p","t","o">>
TextUrl == <<"t","h","e"," ","a","i"," ","w","w","w",".","r","o","b","o","t","s",".","i","o">>

\* the kinds of row: [user_id, text, created_at]
SampleRows ==
    {[user_id |-> "A", text |-> TextRobots, created_at |-> FirstDay - 1],
     [user_id |-> "A", text |-> TextTag, created_at |-> FirstDay - 5],
     [user_id |-> "A", text |-> TextCrypto, created_at |-> FirstDay - 1],
     [user_id |-> "A", text |-> TextUrl, created_at |-> FirstDay - 2],
     [user_id |-> "A", text |-> TextRobots, created_at |-> FirstDay - 8],
     [user_id |-> "B", text |-> TextRobots, created_at |-> FirstDay - 1]}

SampleTables ==
    {[i \in 1..NumRows |-> ContentRow(i, k[i].user_id, k[i].text, k[i].created_at)] :
        k \in [1..NumRows -> SampleRows]}

InitDetect ==
    /\ content \in SampleTables
    /\ trends = {}
    /\ next_id = 1
    /\ now = FirstDay
    /\ drafts = {}
    /\ sends = {}
    /\ zone_days = 0
    /\ run = [r \in Callers |-> IdleRun]
    /\ calls_left = 0
    /\ faults_left = 0
    /\ \E content_ok \in BOOLEAN :
         call \in {[fn |-> "detect_trends", user_id |-> "A", max_trends |-> SaveMaxTrends,
                    content_ok |-> content_ok, env |-> env] :
                      env \in Envs(TrendingKeywords(content, "A", now, content_ok),
                                   SaveMaxTrends)}
    /\ ret = NoReturn

CallDetect ==
    /\ call.fn = "detect_trends"
    /\ ~ret.returned
    /\ ret' = Returned(detect_trends(TrendingKeywords(content, call.user_id, now,
                                                      call.content_ok),
                                     content, call.user_id, call.max_trends, now,
                                     call.env))
    /\ UNCHANGED <<drafts, sends, zone_days, content, trends, next_id, now, run, calls_left, faults_left, call>>

SpecDetect == InitDetect /\ [][CallDetect]_vars

\* ------------------------------------------------------------------------
\* Direct calls of extract_keywords_from_content and of detect_trends with a small
\* max_trends, over content tables of NumExtractRows rows
\* ------------------------------------------------------------------------

NumExtractRows == 3

\* largest min_mentions and largest max_trends passed
MaxMinMentions == 3
MaxMaxTrends == 2

\* "#ai #ai robots"
TextTwice == <<"#","a","i"," ","#","a","i"," ","r","o","b","o","t","s">>

ExtractRows ==
    {[user_id |-> "A", text |-> TextTwice, created_at |-> FirstDay - 1],
     [user_id |-> "A", text |-> TextRobots, created_at |-> FirstDay - 1],
     [user_id |-> "A", text |-> TextTag, created_at |-> FirstDay - 5],
     [user_id |-> "A", text |-> TextRobots, created_at |-> FirstDay - 8],
     [user_id |-> "B", text |-> TextRobots, created_at |-> FirstDay - 1]}

ExtractCall(min_mentions, query_ok) ==
    [fn |-> "extract_keywords_from_content", user_id |-> "A", days |-> ExtractDays,
     min_mentions |-> min_mentions, query_ok |-> query_ok]

DetectCall(max_trends, content_ok, env) ==
    [fn |-> "detect_trends", user_id |-> "A", max_trends |-> max_trends,
     content_ok |-> content_ok, env |-> env]

InitExtract ==
    /\ \E k \in [1..NumExtractRows -> ExtractRows] :
         content = [i \in 1..NumExtractRows |->
                       ContentRow(i, k[i].user_id, k[i].text, k[i].created_at)]
    /\ trends = {}
    /\ next_id = 1
    /\ now = FirstDay
    /\ drafts = {}
    /\ sends = {}
    /\ zone_days = 0
    /\ run = [r \in Callers |-> IdleRun]
    /\ calls_left = 0
    /\ faults_left = 0
    /\ \/ \E min_mentions \in 1..MaxMinMentions, query_ok \in BOOLEAN :
            call = ExtractCall(min_mentions, query_ok)
       \/ \E max_trends \in 1..MaxMaxTrends, content_ok \in BOOLEAN :
            \E env \in Envs(TrendingKeywords(content, "A", now, content_ok), max_trends) :
                call = DetectCall(max_trends, content_ok, env)
    /\ ret = NoReturn

CallExtract ==
    /\ call.fn = "extract_keywords_from_content"
    /\ ~ret.returned
    /\ ret' = Returned(extract_keywords_from_content(content, call.user_id, now,
                                                     call.days, call.min_mentions,
                                                     call.query_ok))
    /\ UNCHANGED <<drafts, sends, zone_days, content, trends, next_id, now, run, calls_left, faults_left, call>>

SpecExtract == InitExtract /\ [][CallExtract \/ CallDetect]_vars

\* ------------------------------------------------------------------------
\* Direct calls of get_top_trends over trends tables written on earlier days
\* ------------------------------------------------------------------------

\* largest limit passed to get_top_trends
MaxLimit == 3

\* a trend dictionary with the given keyword and score
SampleTrend(keyword, score) ==
    [keyword |-> keyword, score |-> score, google_trends_score |-> 0,
     content_mentions |-> DetectMinMentions, velocity |-> 0,
     related_content_ids |-> {}]

\* rows save_trends inserted: scores 72.3, 45.0 and 90.0, today, at the edge of the
\* lookback window and one day beyond it, for two owners
TrendPool ==
    {InsertedRow(1, "A", SampleTrend("robots", SampleMean), FirstDay, FirstDay),
     InsertedRow(2, "A", SampleTrend("#ai", 4500), FirstDay, FirstDay),
     InsertedRow(3, "A", SampleTrend("crypto", 9000), FirstDay - TopDays - 1,
                 FirstDay - TopDays - 1),
     InsertedRow(4, "A", SampleTrend("news", 4500), FirstDay - TopDays,
                 FirstDay - TopDays),
     InsertedRow(5, "A", SampleTrend("@bot", SampleMean), FirstDay - 1, FirstDay - 1),
     InsertedRow(6, "B", SampleTrend("robots", 9500), FirstDay, FirstDay)}

TopCalls ==
    {[fn |-> "get_top_trends", user_id |-> user_id, limit |-> limit,
      query_ok |-> query_ok] :
        user_id \in Users, limit \in 1..MaxLimit, query_ok \in BOOLEAN}

InitTop ==
    /\ content = <<>>
    /\ trends \in SUBSET TrendPool
    /\ next_id = Cardinality(TrendPool) + 1
    /\ now = FirstDay
    /\ drafts = {}
    /\ sends = {}
    /\ zone_days = 0
    /\ run = [r \in Callers |-> IdleRun]
    /\ calls_left = 0
    /\ faults_left = 0
    /\ call \in TopCalls
    /\ ret = NoReturn

\* get_top_trends returns one of the lists the store may answer with, or [] when the
\* query raises
CallTop ==
    /\ call.fn = "get_top_trends"
    /\ ~ret.returned
    /\ \E top \in IF call.query_ok
                  THEN get_top_trends(trends, call.user_id, call.limit, now)
                  ELSE {<<>>} :
           ret' = Returned(top)
    /\ UNCHANGED <<drafts, sends, zone_days, content, trends, next_id, now, run, calls_left, faults_left, call>>

SpecTop == InitTop /\ [][CallTop]_vars

\* ------------------------------------------------------------------------
\* Direct calls of extract_keywords_from_text over texts put together from pieces
\* ------------------------------------------------------------------------

\* largest number of pieces in a text
MaxPieces == 3

\* stop words in lower and upper case, a short word, a keyword, a short hashtag,
\* the tag signs, separators, a digit and the start of a URL
StopPieces == {<<"t","h","e">>, <<"I">>, <<"W","a","s">>}
SeparatorPieces == {<<" ">>, <<",">>}
TextPieces ==
    StopPieces \cup SeparatorPieces \cup
    {<<"a","b">>, <<"n","e","w","s">>, <<"#","a">>, <<"@">>, <<"_">>, <<"7">>,
     <<"w","w","w",".">>}

RECURSIVE Flatten(_)
\* the text the pieces make
Flatten(pieces) ==
    IF pieces = <<>> THEN <<>> ELSE Head(pieces) \o Flatten(Tail(pieces))

\* extract_keywords_from_text(text, max_keywords = ...) with the default min_length
TextCall(pieces, max_keywords) ==
    [fn |-> "extract_keywords_from_text", pieces |-> pieces,
     min_length |-> DefaultMinLength, max_keywords |-> max_keywords]

InitText ==
    /\ NoService
    /\ \E n \in 0..MaxPieces :
         \E pieces \in [1..n -> TextPieces], max_keywords \in {1, n + 1, DefaultMaxKeywords} :
             call = TextCall(pieces, max_keywords)
    /\ ret = NoReturn

CallText ==
    /\ call.fn = "extract_keywords_from_text"
    /\ ~ret.returned
    /\ ret' = Returned(extract_keywords_from_text(Flatten(call.pieces), call.min_length,
                                                  call.max_keywords))
    /\ UNCHANGED <<drafts, sends, zone_days, content, trends, next_id, now, run, calls_left, faults_left, call>>

SpecText == InitText /\ [][CallText]_vars

\* ------------------------------------------------------------------------
\* Direct calls of detect_trends over a content table with more trending keywords
\* than the provider is asked about
\* ------------------------------------------------------------------------

\* largest max_trends passed
MaxWideTrends == 12

WideTags ==
    <<"a", "b", "c", "d", "e", "f", "g", "h", "i", "j", "k",
      "l", "m", "n", "o", "p", "q", "r", "s", "t", "u", "v">>

RECURSIVE TagText(_)
\* "#a #b ..." for the given letters
TagText(letters) ==
    IF letters = <<>> THEN <<>>
    ELSE <<"#", Head(letters)>>
         \o (IF Tail(letters) = <<>> THEN <<>> ELSE <<" ">>)
         \o TagText(Tail(letters))

\* eleven tags in two rows of the older window, eleven more in two rows of the recent
\* window: 22 keywords of 2 mentions each
WideCorpus ==
    LET half == Len(WideTags) \div 2
        first == TagText(SubSeq(WideTags, 1, half))
        second == TagText(SubSeq(WideTags, half + 1, Len(WideTags)))
    IN  << ContentRow(1, "A", first, FirstDay - RecentDays - 1),
           ContentRow(2, "A", first, FirstDay - RecentDays - 1),
           ContentRow(3, "A", second, FirstDay - 1),
           ContentRow(4, "A", second, FirstDay - 1) >>

\* the collaborators' behaviour when the velocity queries succeed for all keywords
\* or for none
WideEnvs(trending_keywords, max_trends) ==
    {[outcomes |-> o, velocity_ok |-> v] :
        o \in OutcomeSeqs(GoogleKeywords(trending_keywords, max_trends)),
        v \in {{}, {trending_keywords[i].keyword : i \in 1..Len(trending_keywords)}}}

InitWide ==
    /\ content = WideCorpus
    /\ trends = {}
    /\ next_id = 1
    /\ now = FirstDay
    /\ drafts = {}
    /\ sends = {}
    /\ zone_days = 0
    /\ run = [r \in Callers |-> IdleRun]
    /\ calls_left = 0
    /\ faults_left = 0
    /\ \E max_trends \in {1} \cup SaveMaxTrends..MaxWideTrends, content_ok \in BOOLEAN :
         \E trending_keywords \in {TrendingKeywords(content, "A", now, content_ok)} :
             \E env \in WideEnvs(trending_keywords, max_trends) :
                 call = DetectCall(max_trends, content_ok, env)
    /\ ret = NoReturn

SpecWide == InitWide /\ [][CallDetect]_vars

\* ------------------------------------------------------------------------
\* calculate_velocity, one step per query.  call holds the frame of the call: its
\* arguments, the two cutoffs and the data of the two responses.
\* ------------------------------------------------------------------------

NumVelocityRows == 3

\* rows about robots of "A" on both sides of the two cutoffs, one row about something
\* else and one row of another owner
VelocityRows ==
    {[user_id |-> "A", text |-> TextRobots, created_at |-> FirstDay - d] :
        d \in {0, RecentDays, RecentDays + 1, OlderDays, OlderDays + 1}}
    \cup {[user_id |-> "A", text |-> TextCrypto, created_at |-> FirstDay - RecentDays],
          [user_id |-> "B", text |-> TextRobots, created_at |-> FirstDay - 1]}

\* now = datetime.now(); recent_cutoff = ...; older_cutoff = ...
VelocityFrame(user_id, keyword, today, query_ok) ==
    [fn |-> "calculate_velocity", user_id |-> user_id, keyword |-> keyword,
     query_ok |-> query_ok, pc |-> "recent",
     recent_cutoff |-> today - RecentDays, older_cutoff |-> today - OlderDays,
     recent_data |-> <<>>, older_data |-> <<>>]

InitWindows ==
    /\ \E k \in [1..NumVelocityRows -> VelocityRows] :
         content = [i \in 1..NumVelocityRows |->
                       ContentRow(i, k[i].user_id, k[i].text, k[i].created_at)]
    /\ trends = {}
    /\ next_id = 1
    /\ now = FirstDay
    /\ drafts = {}
    /\ sends = {}
    /\ zone_days = 0
    /\ run = [r \in Callers |-> IdleRun]
    /\ calls_left = 0
    /\ faults_left = 0
    /\ \E query_ok \in BOOLEAN : call = VelocityFrame("A", "robots", now, query_ok)
    /\ ret = NoReturn

\* recent_response = ...gte('created_at', recent_cutoff).execute()
RecentQuery ==
    /\ call.pc = "recent"
    /\ call.query_ok
    /\ call' = [call EXCEPT
                   !.pc = "older",
                   !.recent_data = ContentSince(content, call.user_id,
                                                call.recent_cutoff)]
    /\ UNCHANGED <<drafts, sends, zone_days, content, trends, next_id, now, run, calls_left, faults_left, ret>>

\* older_response = ...gte('created_at', older_cutoff).lt('created_at', recent_cutoff)
OlderQuery ==
    /\ call.pc = "older"
    /\ call' = [call EXCEPT
                   !.pc = "count",
                   !.older_data = ContentBetween(content, call.user_id,
                                                 call.older_cutoff,
                                                 call.recent_cutoff)]
    /\ UNCHANGED <<drafts, sends, zone_days, content, trends, next_id, now, run, calls_left, faults_left, ret>>

\* the two counting loops, the quotient and the rounding
CountAndReturn ==
    /\ call.pc = "count"
    /\ call' = [call EXCEPT !.pc = "done"]
    /\ ret' = Returned(VelocityFromCounts(CountMentions(call.recent_data, call.keyword),
                                          CountMentions(call.older_data, call.keyword),
                                          TRUE))
    /\ UNCHANGED <<drafts, sends, zone_days, content, trends, next_id, now, run, calls_left, faults_left>>

\* a query raises: except Exception ... return 0.0
QueryFails ==
    /\ call.pc = "recent"
    /\ ~call.query_ok
    /\ call' = [call EXCEPT !.pc = "done"]
    /\ ret' = Returned(0)
    /\ UNCHANGED <<drafts, sends, zone_days, content, trends, next_id, now, run, calls_left, faults_left>>

SpecWindows ==
    InitWindows /\ [][RecentQuery \/ OlderQuery \/ CountAndReturn \/ QueryFails]_vars

\* ------------------------------------------------------------------------
\* One call of detect_and_save_trends for an owner with more trending keywords than
\* detect_trends returns
\* ------------------------------------------------------------------------

\* number of collaborator failures during the call
SummaryFaults == 1

\* twelve rows of "A", the first with the tags 1 to 11 and the i-th with the tags
\* i - 1 to 11: 11 keywords of 2, 3, ..., 12 mentions
ElevenCorpus ==
    LET n == SaveMaxTrends + 1
    IN  [i \in 1..(n + 1) |->
            ContentRow(i, "A", TagText(SubSeq(WideTags, IF i = 1 THEN 1 ELSE i - 1, n)),
                       FirstDay - 1)]

\* records of "A" that runs of more than 7 days ago left, one of them for a keyword
\* that is trending again
StaleTrends ==
    {InsertedRow(1, "A", SampleTrend("#k", 9000), FirstDay - TopDays - 1,
                 FirstDay - TopDays - 1),
     InsertedRow(2, "A", SampleTrend("news", 9500), FirstDay - TopDays - 1,
                 FirstDay - TopDays - 1)}

InitSummary ==
    /\ content = ElevenCorpus
    /\ trends \in {{}, StaleTrends}
    /\ next_id = Cardinality(StaleTrends) + 1
    /\ now = FirstDay
    /\ drafts = {}
    /\ sends = {}
    /\ zone_days = 0
    /\ run = [r \in Callers |-> IdleRun]
    /\ calls_left = 1
    /\ faults_left = SummaryFaults
    /\ call = NoCall
    /\ ret = NoReturn

\* the scheduler job within one day
NextToday ==
    \/ \E r \in Callers, user_id \in Users : StartAlone(r, user_id)
    \/ \E r \in Callers : Step(r)

SpecSummary == InitSummary /\ [][NextToday]_vars

\* ------------------------------------------------------------------------
\* Callers of detect_and_save_trends for owners with nothing to detect, over a
\* trends table that earlier runs filled
\* ------------------------------------------------------------------------

\* "AI robots" and "crypto" of A, and an "AI robots" of A and a "robots" of B that are
\* older than the extraction window
QuietCorpus ==
    << ContentRow(1, "A", TextRobots, FirstDay - 1),
       ContentRow(2, "A", TextCrypto, FirstDay - 1),
       ContentRow(3, "A", TextRobots, FirstDay - ExtractDays - 1),
       ContentRow(4, "B", <<"r","o","b","o","t","s">>, FirstDay - ExtractDays - 1) >>

\* rows save_trends inserted the day before
KeptTrends ==
    {InsertedRow(1, "A", SampleTrend("robots", SampleMean), FirstDay - 1, FirstDay - 1),
     InsertedRow(2, "B", SampleTrend("robots", 9500), FirstDay - 1, FirstDay - 1)}

InitQuiet ==
    /\ \/ content = Corpus /\ trends = {}
       \/ content = QuietCorpus /\ trends \in {{}, KeptTrends}
    /\ next_id = Cardinality(KeptTrends) + 1
    /\ now = FirstDay
    /\ drafts = {}
    /\ sends = {}
    /\ zone_days = 0
    /\ run = [r \in Callers |-> IdleRun]
    /\ calls_left = Cardinality(Users)
    /\ faults_left = ApiFaults
    /\ call = NoCall
    /\ ret = NoReturn

SpecQuiet == InitQuiet /\ [][Next]_vars

\* ------------------------------------------------------------------------
\* Properties
\* ------------------------------------------------------------------------

SummaryKeys == {"detected", "saved", "top_3"}

\* the logger.error lines of the call of caller r written at the given place
ErrorsAt(r, at) == SelectSeq(run[r].log, LAMBDA e : e.at = at)

\* C1: when detection runs execute one after another, the trends table holds at most
\* one row per (owner, keyword) in every state: re-detecting a keyword updates its row
OneTrendPerKeyword ==
    \A t1, t2 \in trends :
        (t1.user_id = t2.user_id /\ t1.keyword = t2.keyword) => t1.id = t2.id

\* a later run has updated the row an earlier day's run inserted
RedetectedKeyword ==
    /\ calls_left = 0
    /\ \E t \in trends : t.detected_at > t.created_at

\* C2: the trends table holds at most one row per (owner, keyword) in every state
\* also when the lookups and writes of two runs for the same owner interleave
OneTrendPerKeywordInterleaved ==
    \A user_id \in Users : \A t \in trends :
        Cardinality(TrendsOf(trends, user_id, t.keyword)) <= 1

DetectReturned == call.fn = "detect_trends" /\ ret.returned

\* the rows of the caller within the extraction window
WindowRows == ContentSince(content, call.user_id, now - ExtractDays)

\* number of window rows whose text contains kw
MentionCount(kw) ==
    Cardinality({i \in 1..Len(WindowRows) : Contains(Lower(WindowRows[i].text), kw)})

\* number of window rows from whose text kw is extracted
ExtractCount(kw) ==
    Cardinality({i \in 1..Len(WindowRows) :
                    kw \in Range(extract_keywords_from_text(WindowRows[i].text,
                                                            DefaultMinLength,
                                                            DefaultMaxKeywords))})

ProbeWords == {"ai", "crypto", "robots", "#ai", "the"}

ReturnedKeywords == {ret.value[i].keyword : i \in 1..Len(ret.value)}

SurfacedWith(kw, n) ==
    \E i \in 1..Len(ret.value) :
        ret.value[i].keyword = kw /\ ret.value[i].content_mentions = n

ScoreReturned == call.fn = "calculate_trend_score" /\ ret.returned

\* C4: calculate_trend_score returns a value in [0, 100] for every mention count >= 0,
\* every signal in [0, 100] and every velocity
ScoreInRange ==
    ScoreReturned => (ret.value >= 0 /\ ret.value <= 10000)

\* all three terms are beyond their saturation points
ScoreAllSaturated ==
    /\ ScoreReturned
    /\ call.content_mentions > MentionsSaturation
    /\ call.google_trends_score = 10000
    /\ call.velocity < 0 - 100 * VelocitySaturation
    /\ ret.value = 10000

\* five times 0.4*min(m/50*100, 100) + 0.4*signal + 0.2*min(|v|/5*100, 100), in hundredths
FiveTimesExactScore(m, g, v) ==
    5 * Min(80 * m, 4000) + 2 * g + 5 * Min(4 * Abs(v), 2000)

\* C5: calculate_trend_score is 0.4*min(m/50*100, 100) + 0.4*signal
\* + 0.2*min(|v|/5*100, 100) rounded to 2 decimals: 0.0 at (0, 0, 0), 100.0 at
\* (50, 100, 5), no growth above 50 mentions or velocity magnitude 5
ScoreIsWeightedSum ==
    ScoreReturned =>
        /\ Abs(5 * ret.value - FiveTimesExactScore(call.content_mentions,
                                                   call.google_trends_score,
                                                   call.velocity)) <= 2
        /\ (call.content_mentions = 0 /\ call.google_trends_score = 0
            /\ call.velocity = 0) => ret.value = 0
        /\ (call.content_mentions >= 50 /\ call.google_trends_score = 10000
            /\ Abs(call.velocity) >= 500) => ret.value = 10000

\* the saturation boundary (50, 100, 5)
ScoreAtBoundary ==
    /\ ScoreReturned
    /\ call.content_mentions = 50
    /\ call.google_trends_score = 10000
    /\ call.velocity = 500
    /\ ret.value = 10000

VelocityReturned == call.fn = "calculate_velocity" /\ ret.returned /\ call.query_ok

\* C6 (as stated): calculate_velocity returns recent_count when prior = 0 < recent,
\* exactly (recent - prior) / prior when prior > 0, 0.0 when both are 0, and never
\* divides by zero
VelocityIsExactQuotient ==
    VelocityReturned =>
        /\ ~ret.raised
        /\ (call.older_mentions = 0) => ret.value = 100 * call.recent_mentions
        /\ (call.older_mentions > 0) =>
              ret.value * call.older_mentions
                  = 100 * (call.recent_mentions - call.older_mentions)

\* C6 (amended): calculate_velocity returns recent_count when prior = 0 < recent,
\* (recent - prior) / prior rounded to 2 decimals when prior > 0, 0.0 when both are 0
\* (5, 0 gives 5.0 and 3, 6 gives -0.5), and never divides by zero
VelocityIsRoundedQuotient ==
    VelocityReturned =>
        /\ ~ret.raised
        /\ (call.older_mentions = 0) => ret.value = 100 * call.recent_mentions
        /\ (call.older_mentions > 0) =>
              2 * Abs(ret.value * call.older_mentions
                      - 100 * (call.recent_mentions - call.older_mentions))
                  <= call.older_mentions
        /\ (call.recent_mentions = 5 /\ call.older_mentions = 0) => ret.value = 500
        /\ (call.recent_mentions = 3 /\ call.older_mentions = 6) => ret.value = 0 - 50

\* a quotient that has more than two decimals: (1 - 3) / 3 gives -0.67
VelocityRounded ==
    /\ VelocityReturned
    /\ call.recent_mentions = 1
    /\ call.older_mentions = 3
    /\ ret.value = 0 - 67

\* C7: detect_and_save_trends never raises: whatever fails, the call goes on and
\* ends by returning a summary with the keys detected, saved and top_3
AlwaysReturnsSummary ==
    \A r \in Callers :
        /\ run[r].pc \in {"idle", "detect", "save", "lookup", "write", "top", "done"}
        /\ run[r].pc \notin {"idle", "done"} => ENABLED Step(r)
        /\ run[r].pc = "done" => DOMAIN run[r].result = SummaryKeys

\* a call that met a failure of the provider, of a velocity query, of an upsert and
\* of the final read has returned
FailuresOfEveryKind ==
    \E r \in Callers :
        /\ run[r].pc = "done"
        /\ ErrorsAt(r, "get_interest_over_time") # <<>>
        /\ ErrorsAt(r, "calculate_velocity") # <<>>
        /\ ErrorsAt(r, "save_trends") # <<>>
        /\ ErrorsAt(r, "get_top_trends") # <<>>

\* the content query of the extraction step failed in the call of caller r
ExtractionFailed(r) == ErrorsAt(r, "extract_keywords_from_content") # <<>>

\* C8: when the content store cannot be reached during the extraction step, the call
\* does not return a result summary: the failure reaches the caller
ExtractionFailurePropagates ==
    \A r \in Callers :
        ExtractionFailed(r) =>
            ~(run[r].pc = "done" /\ DOMAIN run[r].result = SummaryKeys)

\* C9: in save_trends a failed lookup, update or insert is skipped and the loop goes
\* on: every trend is attempted, and the count returned is the number of trends whose
\* upsert raised nothing, between 0 and the number of trends
FailedUpsertIsSkipped ==
    \A r \in Callers :
        LET errors == Len(ErrorsAt(r, "save_trends"))
            n == Len(run[r].trends)
        IN  /\ run[r].pc \in {"lookup", "write"} =>
                  /\ run[r].i \in 1..n
                  /\ run[r].saved_count + errors = run[r].i - 1
            /\ (run[r].pc \in {"top", "done"} /\ n > 0) =>
                  /\ run[r].saved_count + errors = n
                  /\ run[r].saved_count \in 0..n
            /\ (run[r].pc = "done" /\ n > 0) => run[r].result.saved = run[r].saved_count

\* the upsert of the first of two trends failed and the second one was saved
SecondSavedAfterFailure ==
    \E r \in Callers :
        /\ run[r].pc = "done"
        /\ Len(run[r].trends) = 2
        /\ ErrorsAt(r, "save_trends")
              = <<LogEntry("save_trends", run[r].trends[1].keyword)>>
        /\ run[r].result.saved = 1
        /\ \E t \in trends : /\ t.keyword = run[r].trends[2].keyword
                             /\ t.user_id = run[r].user_id
                             /\ t.detected_at = run[r].detected_at

BatchReturned == call.fn = "batch_get_interest" /\ ret.returned

\* C10: batch_get_interest does not fail when the provider fails for a batch: every
\* keyword of that batch maps to 0.0 and the keywords of the other batches keep the
\* values the provider returned for them
FailedBatchIsZero ==
    BatchReturned =>
        /\ ~ret.raised
        /\ \A b \in 1..Len(call.outcomes) :
              \A kw \in Range(Batch(call.keywords, b)) :
                  /\ kw \in DOMAIN ret.value
                  /\ ret.value[kw] =
                        IF call.outcomes[b].kind = "data"
                           /\ kw \in DOMAIN call.outcomes[b].mean
                        THEN call.outcomes[b].mean[kw]
                        ELSE 0

\* the provider failed for the second of three batches only
MiddleBatchFailed ==
    /\ BatchReturned
    /\ Len(call.outcomes) = 3
    /\ call.outcomes[1].kind = "data"
    /\ call.outcomes[2].kind = "error"
    /\ call.outcomes[3].kind = "data"
    /\ ret.value[call.keywords[1]] = 10000
    /\ ret.value[call.keywords[6]] = 0
    /\ ret.value[call.keywords[11]] = SampleMean

TopReturned == call.fn = "get_top_trends" /\ ret.returned

\* the rows of the caller inside the lookback window of get_top_trends
InWindow == {t \in trends : t.user_id = call.user_id /\ t.detected_at >= now - TopDays}

NoStaleTop ==
    TopReturned =>
        \A i \in 1..Len(ret.value) : ret.value[i].detected_at >= now - TopDays

\* the highest score of the owner belongs to a record detected 8 days ago, and other
\* records are returned
StaleBestLeftOut ==
    /\ TopReturned
    /\ ret.value # <<>>
    /\ \E t \in trends :
          /\ t.user_id = call.user_id
          /\ t.detected_at < now - TopDays
          /\ \A i \in 1..Len(ret.value) : t.score > ret.value[i].score

\* C13: no detection run deletes a record: every step other than an explicit
\* delete_trend keeps every stored record with its id, owner and keyword, so the set
\* of (owner, keyword) pairs in the store never shrinks, also for keywords that are
\* no longer surfaced
NoAutoDelete ==
    [][(\E user_id \in Users, trend_id \in 1..next_id : DeleteTrend(user_id, trend_id))
       \/ \A t \in trends :
             \E t2 \in trends' :
                 t2.id = t.id /\ t2.user_id = t.user_id /\ t2.keyword = t.keyword]_vars

\* a later run of the owner has ended without surfacing a keyword whose record of an
\* earlier run is still stored
UnsurfacedKeywordKept ==
    \E r \in Callers :
        /\ run[r].pc = "done"
        /\ run[r].trends # <<>>
        /\ \E t \in trends :
              /\ t.user_id = run[r].user_id
              /\ t.detected_at < run[r].detected_at
              /\ \A i \in 1..Len(run[r].trends) : run[r].trends[i].keyword # t.keyword

\* C14: when a detection run re-surfaces, at a later time, a keyword that already has
\* a record, the record's updated_at after the write is strictly later than before
UpdatedAtAdvances ==
    [][\A t \in trends : \A t2 \in trends' :
          (t2.id = t.id /\ t2.detected_at > t.detected_at)
              => t2.updated_at > t.updated_at]_vars

\* the stored records of an owner
RecordsOf(rows, user_id) == {t \in rows : t.user_id = user_id}

\* C15: a step of a detection run for one owner leaves the records of every other
\* owner as they are, also when both owners have a record for the same keyword and
\* their runs interleave
OtherOwnersUntouched ==
    [][\A r \in Callers :
          run'[r] # run[r] =>
              \A user_id \in Users \ {run'[r].user_id} :
                  RecordsOf(trends', user_id) = RecordsOf(trends, user_id)]_vars

\* runs of two owners are in progress and both owners have a record for one keyword
SameKeywordTwoOwners ==
    \E r1, r2 \in Callers :
        /\ run[r1].user_id # run[r2].user_id
        /\ run[r1].pc \in {"lookup", "write", "top"}
        /\ run[r2].pc \in {"lookup", "write", "top"}
        /\ \E t1, t2 \in trends :
              /\ t1.keyword = t2.keyword
              /\ t1.user_id = run[r1].user_id
              /\ t2.user_id = run[r2].user_id

TextReturned == call.fn = "extract_keywords_from_text" /\ ret.returned

\* the text is made of stop words with a separator between any two of them
OnlyStopWords(pieces) ==
    /\ \A i \in 1..Len(pieces) : pieces[i] \in StopPieces \cup SeparatorPieces
    /\ \A i \in 1..Len(pieces) - 1 :
          pieces[i] \in SeparatorPieces \/ pieces[i + 1] \in SeparatorPieces

\* C16: for every text made only of stop words and separators,
\* extract_keywords_from_text returns the empty sequence
StopWordsGiveNothing ==
    (TextReturned /\ OnlyStopWords(call.pieces)) => ret.value = <<>>

\* two stop words of 3 letters with a separator between them give nothing
TwoStopWords ==
    /\ TextReturned
    /\ call.pieces = <<<<"t","h","e">>, <<",">>, <<"W","a","s">>>>
    /\ ret.value = <<>>

\* the characters a returned keyword can consist of
KeywordChars == UNION {Range(Lower(piece)) : piece \in TextPieces}

\* the plain tokens of fewer than min_length characters
ShortPlain(min_length) ==
    UNION {{Join(w) : w \in {v \in [1..n -> KeywordChars] :
                               n > 0 => v[1] \notin {"#", "@"}}} :
           n \in 0..(min_length - 1)}

\* the plain tokens shorter than the default minimal length
ShortPlainTokens == ShortPlain(DefaultMinLength)

\* C17: for every text, extract_keywords_from_text with min_length = 3 returns no
\* plain token (one that starts with neither '#' nor '@') shorter than 3 characters
NoShortPlainToken ==
    (TextReturned /\ call.min_length = DefaultMinLength) =>
        Range(ret.value) \cap ShortPlainTokens = {}

\* of a 2-letter word and a 2-character hashtag only the hashtag is returned
ShortTagOnly ==
    /\ TextReturned
    /\ call.min_length = DefaultMinLength
    /\ call.pieces = <<<<"a","b">>, <<" ">>, <<"#","a">>>>
    /\ ret.value = <<"#a">>

ExtractReturned == call.fn = "extract_keywords_from_content" /\ ret.returned

\* C18: every candidate returned by extract_keywords_from_content has mention_count
\* equal to the number of distinct content ids in its list and mention_count >=
\* min_mentions: a row contributes a keyword at most once
MentionCountIsIdCount ==
    ExtractReturned =>
        \A i \in 1..Len(ret.value) :
            /\ ret.value[i].mention_count = Cardinality(ret.value[i].content_ids)
            /\ ret.value[i].mention_count >= call.min_mentions

\* "#ai" is in three rows, twice in two of them, and is returned with 3 mentions
TagInThreeRows ==
    /\ ExtractReturned
    /\ call.min_mentions = MaxMinMentions
    /\ \E i \in 1..Len(content) : content[i].text = TextTwice
    /\ \E i \in 1..Len(ret.value) :
          /\ ret.value[i].keyword = "#ai"
          /\ ret.value[i].mention_count = NumExtractRows
          /\ ret.value[i].content_ids = 1..NumExtractRows

\* C19: detect_trends(owner, max_trends) returns at most max_trends trends, in
\* non-increasing score order, each with content_mentions >= 2
DetectIsCutAndRanked ==
    DetectReturned =>
        /\ Len(ret.value) <= call.max_trends
        /\ \A i, j \in 1..Len(ret.value) :
              i < j => ret.value[i].score >= ret.value[j].score
        /\ \A i \in 1..Len(ret.value) :
              ret.value[i].content_mentions >= DetectMinMentions

\* of two keywords that reach 2 mentions only the better scored one is returned, and
\* it is not the first in mention order
SecondCandidateWins ==
    /\ DetectReturned
    /\ call.max_trends = 1
    /\ Len(ret.value) = 1
    /\ LET trending_keywords == TrendingKeywords(content, call.user_id, now,
                                                 call.content_ok)
       IN  /\ Len(trending_keywords) > 1
           /\ ret.value[1].keyword # trending_keywords[1].keyword

\* the owner has no content in the trailing 7 days, or no keyword of theirs reaches 2
\* mentions
NothingToDetect(user_id) == TrendingKeywords(content, user_id, now, TRUE) = <<>>

ZeroSummary == Summary(0, 0, <<>>)

\* C20: a detection run for an owner with no content in the trailing 7 days, or with
\* no keyword that reaches 2 mentions, writes nothing to the trend store and ends with
\* detected = 0, saved = 0 and an empty top_3
\* (stated by contraposition: a step of a run that writes to the store or ends with
\* another summary is a step for an owner who has something to detect)
NoDataIsEmptyResult ==
    [][\A r \in Callers :
          (/\ run[r].pc \notin {"idle", "done"}
           /\ run'[r] # run[r]
           /\ \/ trends' # trends
              \/ run'[r].pc = "done" /\ run'[r].result # ZeroSummary)
          => ~NothingToDetect(run[r].user_id)]_vars

\* runs for both owners ended with the zero summary although each owner has a record
\* of the day before in the store
QuietRunsOverKeptTrends ==
    /\ trends = KeptTrends
    /\ \A user_id \in Users :
          /\ NothingToDetect(user_id)
          /\ \E r \in Callers :
                /\ run[r].pc = "done"
                /\ run[r].user_id = user_id
                /\ run[r].log = <<>>
                /\ run[r].result = ZeroSummary

\* the keywords list extract_keywords_from_text counts: the tokens of the text that
\* pass the stop-word filter, in text order
CountedWords ==
    FilterWords(FindAll(RemoveUrls(Lower(Flatten(call.pieces))), call.min_length))

\* position of the first occurrence of w in ws
FirstIndex(ws, w) == CHOOSE i \in 1..Len(ws) : ws[i] = w /\ \A j \in 1..(i - 1) : ws[j] # w

\* C22: extract_keywords_from_text returns a duplicate-free sequence of at most
\* max_keywords keywords of the text, ordered by non-increasing frequency, keywords
\* of equal frequency in the order of their first occurrence
KeywordsRankedByFrequency ==
    TextReturned =>
        LET ws == CountedWords
            kw == ret.value
        IN  /\ Len(kw) <= call.max_keywords
            /\ \A i \in 1..Len(kw) : CountOf(ws, kw[i]) > 0
            /\ \A i, j \in 1..Len(kw) :
                  i < j =>
                     /\ kw[i] # kw[j]
                     /\ CountOf(ws, kw[i]) >= CountOf(ws, kw[j])
                     /\ CountOf(ws, kw[i]) = CountOf(ws, kw[j])
                           => FirstIndex(ws, kw[i]) < FirstIndex(ws, kw[j])

\* "news#a#a": the tag occurs twice and comes before the word seen first, which alone
\* is left out when max_keywords is 1
FrequentTagFirst ==
    /\ TextReturned
    /\ call.pieces = <<<<"n","e","w","s">>, <<"#","a">>, <<"#","a">>>>
    /\ \/ call.max_keywords = 1 /\ ret.value = <<"#a">>
       \/ call.max_keywords > 1 /\ ret.value = <<"#a", "news">>

LoopReturned == call.fn = "batch_get_interest" /\ "events" \in DOMAIN call /\ ret.returned

\* the keyword lists of the provider requests among the events, in order
RequestedSlices(events) ==
    LET requests == SelectSeq(events, LAMBDA e : e.op = "get_interest_over_time")
    IN  [k \in 1..Len(requests) |-> requests[k].keywords]

\* C23: for n keywords batch_get_interest calls the provider once per consecutive
\* slice of at most 5 keywords, ceil(n/5) times, the slices joined in call order are
\* the keywords, and a 2-second sleep follows every batch but the last
SlicesCoverAndSleepBetween ==
    LoopReturned =>
        LET events == call.events
            slices == RequestedSlices(events)
            n == Len(call.keywords)
        IN  /\ Len(slices) * BatchSize >= n
            /\ (Len(slices) - 1) * BatchSize < n \/ (n = 0 /\ slices = <<>>)
            /\ \A k \in 1..Len(slices) : Len(slices[k]) \in 1..BatchSize
            /\ Flatten(slices) = call.keywords
            /\ \A k \in 1..Len(events) :
                  /\ k % 2 = 1 => events[k].op = "get_interest_over_time"
                  /\ k % 2 = 0 => events[k].op = "sleep"
                                  /\ events[k].seconds = DelaySeconds
            /\ Len(events) = IF n = 0 THEN 0 ELSE 2 * Len(slices) - 1
            /\ ret.value = batch_get_interest(call.keywords, call.outcomes)

\* eleven keywords: slices of 5, 5 and 1 with two sleeps between them
ThreeSlicesTwoSleeps ==
    /\ LoopReturned
    /\ Len(call.keywords) = 2 * BatchSize + 1
    /\ Len(call.events) = 5
    /\ call.events[2].op = "sleep"
    /\ call.events[4].op = "sleep"
    /\ call.events[5] = [op |-> "get_interest_over_time",
                         keywords |-> <<call.keywords[2 * BatchSize + 1]>>]

\* the value the provider result holds for the p-th of the keywords asked about
ProviderValue(keywords, outcomes, p) ==
    LET outcome == outcomes[(p - 1) \div BatchSize + 1]
    IN  IF outcome.kind = "data" /\ keywords[p] \in DOMAIN outcome.mean
        THEN outcome.mean[keywords[p]] ELSE 0

\* C24: detect_trends returns only trends of the first min(2*max_trends, n)
\* trending keywords in mention-count order; the first 20 of these carry the value
\* the provider gave for them, the others the external signal 0.0, and each is scored
\* with the signal it carries
CandidatesAreCapped ==
    DetectReturned =>
        LET tk == TrendingKeywords(content, call.user_id, now, call.content_ok)
            keywords == [p \in 1..Len(tk) |-> tk[p].keyword]
            cap == Min(2 * call.max_trends, Len(tk))
        IN  \A i \in 1..Len(ret.value) :
               LET trend == ret.value[i]
               IN  /\ \E p \in 1..cap :
                         /\ keywords[p] = trend.keyword
                         /\ trend.content_mentions = tk[p].mention_count
                         /\ trend.google_trends_score =
                               IF p <= GoogleCap
                               THEN ProviderValue(keywords, call.env.outcomes, p)
                               ELSE 0
                   /\ trend.score = calculate_trend_score(trend.content_mentions,
                                                          trend.google_trends_score,
                                                          trend.velocity)

\* of 22 candidates the 20th is returned with the provider's value and the 21st, which
\* the provider was not asked about although it has data, with 0.0
UnaskedCandidateScoredZero ==
    /\ DetectReturned
    /\ call.max_trends = SaveMaxTrends + 1
    /\ call.content_ok
    /\ call.env.outcomes[Len(call.env.outcomes)].kind = "data"
    /\ \E i, j \in 1..Len(ret.value) :
          /\ ret.value[i].keyword = "#" \o WideTags[GoogleCap]
          /\ ret.value[i].google_trends_score = SampleMean
          /\ ret.value[j].keyword = "#" \o WideTags[GoogleCap + 1]
          /\ ret.value[j].google_trends_score = 0
          /\ ret.value[j].velocity # 0

WindowsReturned ==
    call.fn = "calculate_velocity" /\ "recent_data" \in DOMAIN call /\ ret.returned

\* the ids of the rows of a response
IdsOf(data) == {data[i].id : i \in 1..Len(data)}

\* C25: the recent window (created_at >= now - 3 days) and the prior window
\* (now - 7 days <= created_at < now - 3 days) of calculate_velocity are disjoint and
\* together hold the owner's content of the trailing 7 days: a row exactly 3 days old
\* is recent, a row older than 7 days is in neither window
WindowsPartitionTheWeek ==
    (WindowsReturned /\ call.query_ok) =>
        LET recent == IdsOf(call.recent_data)
            prior == IdsOf(call.older_data)
            mine == {i \in 1..Len(content) : content[i].user_id = call.user_id}
        IN  /\ recent \cap prior = {}
            /\ recent \cup prior =
                  {content[i].id : i \in {j \in mine :
                                             content[j].created_at >= now - OlderDays}}
            /\ \A i \in mine :
                  /\ content[i].created_at = now - RecentDays
                        => content[i].id \in recent
                  /\ content[i].created_at < now - OlderDays
                        => content[i].id \notin recent \cup prior
                  /\ content[i].id \in recent
                        => content[i].created_at >= now - RecentDays
            /\ ret.value =
                  calculate_velocity(content, call.user_id, call.keyword, now, TRUE)

\* rows exactly 3 days, exactly 7 days and 8 days old: the first is recent, the second
\* prior, the third in neither window, and the velocity is (1 - 1) / 1
BoundaryRows ==
    /\ WindowsReturned
    /\ call.query_ok
    /\ \E i, j, k \in 1..Len(content) :
          /\ content[i].created_at = now - RecentDays
          /\ content[i].text = TextRobots
          /\ content[j].created_at = now - OlderDays
          /\ content[k].created_at = now - OlderDays - 1
          /\ IdsOf(call.recent_data) = {content[i].id}
          /\ IdsOf(call.older_data) = {content[j].id}
    /\ ret.value = 0

\* the run of caller r is at the write for the record rec of its owner: rec's keyword
\* is the one of the trend the loop is at
WritesFor(r, rec) ==
    /\ run[r].pc = "write"
    /\ run'[r] # run[r]
    /\ rec.user_id = run[r].user_id
    /\ rec.keyword = run[r].trends[run[r].i].keyword

\* C26: save_trends changes only records of the given owner whose keyword is in the
\* trend list: an existing record gets the trend's score, google_trends_score,
\* content_mentions, velocity and related_content_ids and the run's detected_at and
\* keeps its id, owner, keyword and created_at; a new record is one of that owner and
\* keyword; every other record keeps all its fields
SaveWritesOnlyListed ==
    [][\A t2 \in trends' :
          t2 \notin trends =>
             \E r \in Callers :
                /\ WritesFor(r, t2)
                /\ LET trend_data == run[r].trends[run[r].i]
                   IN  /\ t2.score = trend_data.score
                       /\ t2.google_trends_score = trend_data.google_trends_score
                       /\ t2.content_mentions = trend_data.content_mentions
                       /\ t2.velocity = trend_data.velocity
                       /\ t2.related_content_ids = trend_data.related_content_ids
                       /\ t2.detected_at = run[r].detected_at
                /\ \A t \in trends :
                      t.id = t2.id => /\ t.user_id = t2.user_id
                                      /\ t.keyword = t2.keyword
                                      /\ t.created_at = t2.created_at
                                      /\ trends' = (trends \ {t}) \cup {t2}]_vars

\* on a later day a run has updated one record of the owner, which keeps its
\* created_at, and has left another one, whose keyword it did not surface, with the
\* detected_at of the day it was inserted
UpdatedNextToUntouched ==
    \E r \in Callers :
        /\ run[r].pc = "done"
        /\ run[r].detected_at > FirstDay
        /\ \E t1, t2 \in trends :
              /\ t1.user_id = run[r].user_id
              /\ t2.user_id = run[r].user_id
              /\ t1.created_at = FirstDay
              /\ t1.detected_at = run[r].detected_at
              /\ \E i \in 1..Len(run[r].trends) : run[r].trends[i].keyword = t1.keyword
              /\ t2.created_at = FirstDay
              /\ t2.detected_at = FirstDay
              /\ \A i \in 1..Len(run[r].trends) : run[r].trends[i].keyword # t2.keyword

\* the keywords of a trend list are pairwise distinct
DistinctKeywords(trend_list) ==
    \A i, j \in 1..Len(trend_list) :
        i # j => trend_list[i].keyword # trend_list[j].keyword

\* C27: the keywords of the trends one detect_trends call returns are pairwise
\* distinct, so a run reaches the upsert of save_trends at most once per keyword:
\* no write of the run is for a keyword an earlier pass of its loop was for
OneUpsertPerKeyword ==
    [][\A r \in Callers :
          run'[r] # run[r] =>
             /\ DistinctKeywords(run'[r].trends)
             /\ run[r].pc = "write" =>
                   /\ run'[r].i = run[r].i + 1
                   /\ \A j \in 1..(run[r].i - 1) :
                         run[r].trends[j].keyword # run[r].trends[run[r].i].keyword]_vars

\* a run has detected more than one trend and inserted a record for each of them
OneRecordPerDetectedKeyword ==
    \E r \in Callers :
        /\ run[r].pc = "done"
        /\ Len(run[r].trends) > 1
        /\ run[r].saved_count = Len(run[r].trends)
        /\ Cardinality({t \in RecordsOf(trends, run[r].user_id) :
                           t.detected_at = run[r].detected_at}) = Len(run[r].trends)
        /\ \A q \in Callers \ {r} : run[q].pc = "idle"

\* C28: every summary detect_and_save_trends returns has 0 <= saved <= detected <= 10
\* and a top_3 of at most 3 entries, each the keyword and score of a stored record of
\* that owner detected within the last 7 days
SummaryWithinBounds ==
    [][\A r \in Callers :
          (run[r].pc # "done" /\ run'[r].pc = "done") =>
             LET summary == run'[r].result
             IN  /\ 0 <= summary.saved
                 /\ summary.saved <= summary.detected
                 /\ summary.detected <= 10
                 /\ Len(summary.top_3) <= 3
                 /\ \A i \in 1..Len(summary.top_3) :
                       \E t \in trends' :
                          /\ t.user_id = run[r].user_id
                          /\ t.keyword = summary.top_3[i].keyword
                          /\ t.score = summary.top_3[i].score
                          /\ t.detected_at >= now - 7]_vars

\* of eleven trending keywords ten were detected and nine saved, and the top 3 are
\* returned although an older record has a higher score than any of them
TenDetectedNineSaved ==
    \E r \in Callers :
        /\ run[r].pc = "done"
        /\ run[r].result.detected = 10
        /\ run[r].result.saved = 9
        /\ Len(run[r].result.top_3) = 3
        /\ Cardinality(RecordsOf(trends, run[r].user_id)) > 3
        /\ \E t \in RecordsOf(trends, run[r].user_id) :
              \A i \in 1..3 : t.score > run[r].result.top_3[i].score

\* ------------------------------------------------------------------------
\* Drafts and newsletter sends
\*   services/draft_service.py, services/newsletter_send_service.py,
\*   services/email_service.py, models/draft.py, models/newsletter_send.py
\*
\* A draft row keeps id, user_id, status and the UTC day of created_at; a send
\* row keeps id, user_id, draft_id, status, is_test and message_id.  An object
\* handed to a function carries its class, so that reading an attribute the
\* class does not have raises, as it does in Python.
\* ------------------------------------------------------------------------

\* the call raised an exception with this message
Raised(value) == [returned |-> FALSE, raised |-> TRUE, value |-> value]

DraftStatus == {"pending", "reviewed", "edited", "sent", "archived"}

SendStatus ==
    {"pending", "sending", "sent", "failed", "bounced", "delivered", "opened", "clicked"}

\* the attributes an object of each class has; a dict has items, not attributes
FieldsOf(class) ==
    CASE class = "DraftUpdate" ->
           {"status", "subject", "html_content", "plain_content", "content_data", "notes"}
      [] class = "DraftResponse" ->
           {"id", "user_id", "subject", "html_content", "plain_content", "content_data",
            "status", "metadata", "notes", "created_at", "updated_at", "reviewed_at",
            "approved_at", "sent_at"}
      [] OTHER -> {}

HasAttr(object, name) == name \in FieldsOf(object.class)

\* DraftService.get_draft: the draft of that id and owner, None when there is none
get_draft(table, draft_id, user_id) ==
    IF \E d \in table : d.id = draft_id /\ d.user_id = user_id
    THEN CHOOSE d \in table : d.id = draft_id /\ d.user_id = user_id
    ELSE None

\* the drafts table after the update of update_draft
WrittenDraft(table, draft_id, user_id, status) ==
    {IF d.id = draft_id /\ d.user_id = user_id THEN [d EXCEPT !.status = status] ELSE d :
        d \in table}

\* DraftService.update_draft: the table it leaves and whether it raised.  The
\* attributes are read in the order of the code: update.status, then, for the
\* status sent, existing.outcome, then update.outcome and update.rejection_reason.
update_draft(table, draft_id, user_id, update) ==
    LET existing == get_draft(table, draft_id, user_id)
    IN  IF existing = None
        THEN [raised |-> FALSE, found |-> FALSE, table |-> table]
        ELSE IF ~HasAttr(update, "status")
        THEN [raised |-> TRUE, found |-> TRUE, table |-> table]
        ELSE IF update.status = "sent" /\ ~HasAttr([class |-> "DraftResponse"], "outcome")
        THEN [raised |-> TRUE, found |-> TRUE, table |-> table]
        ELSE IF ~HasAttr(update, "outcome") \/ ~HasAttr(update, "rejection_reason")
        THEN [raised |-> TRUE, found |-> TRUE, table |-> table]
        ELSE [raised |-> FALSE, found |-> TRUE,
              table |-> IF update.status = "none" THEN table
                        ELSE WrittenDraft(table, draft_id, user_id, update.status)]

\* the newsletter_sends table with the status (and message id) of one row rewritten
WrittenSend(table, send_id, status, message_id) ==
    {IF r.id = send_id THEN [r EXCEPT !.status = status, !.message_id = message_id] ELSE r :
        r \in table}

SendOf(table, send_id) == CHOOSE r \in table : r.id = send_id

\* number of send_newsletter calls in one behaviour
MaxSends == 2

\* number of store failures during send_newsletter calls in one behaviour
SendFaults == 1

\* the drafts the sends start from: one of A in some status, one of B
SendDrafts ==
    {{[id |-> 1, user_id |-> "A", status |-> st, created_at |-> FirstDay],
      [id |-> 2, user_id |-> "B", status |-> "pending", created_at |-> FirstDay]} :
        st \in {"pending", "reviewed", "sent"}}

InitSend ==
    /\ content = <<>>
    /\ trends = {}
    /\ next_id = 1
    /\ now = FirstDay
    /\ run = [r \in Callers |-> IdleRun]
    /\ calls_left = MaxSends
    /\ faults_left = SendFaults
    /\ drafts \in SendDrafts
    /\ sends = {}
    /\ zone_days = 0
    /\ call = NoCall
    /\ ret = NoReturn

SendIdle == call.fn = "none" \/ (call.fn = "send_newsletter" /\ call.pc = "done")

SendAt(pc) == call.fn = "send_newsletter" /\ call.pc = pc

SendFrame(user_id, draft_id, is_test, email_valid, draft, pc) ==
    [fn |-> "send_newsletter", user_id |-> user_id, draft_id |-> draft_id,
     is_test |-> is_test, email_valid |-> email_valid, draft |-> draft, pc |-> pc,
     send_id |-> 0, accepted |-> FALSE, provider_failed |-> FALSE, store_failed |-> FALSE]

\* send_newsletter up to the insert of the send record
SendRequest(user_id, draft_id, is_test, email_valid) ==
    /\ SendIdle
    /\ calls_left > 0
    /\ calls_left' = calls_left - 1
    /\ LET draft == get_draft(drafts, draft_id, user_id)
           send_id == Cardinality(sends) + 1
       IN  IF draft = None
           THEN /\ call' = SendFrame(user_id, draft_id, is_test, email_valid, draft, "done")
                /\ ret' = Raised("Draft not found")
                /\ sends' = sends
           ELSE IF ~email_valid
           THEN /\ call' = SendFrame(user_id, draft_id, is_test, email_valid, draft, "done")
                /\ ret' = Raised("Invalid recipient email address")
                /\ sends' = sends
           ELSE /\ call' = [SendFrame(user_id, draft_id, is_test, email_valid, draft,
                                      "sending") EXCEPT !.send_id = send_id]
                /\ ret' = NoReturn
                /\ sends' = sends \cup
                      {[id |-> send_id, user_id |-> user_id, draft_id |-> draft_id,
                        status |-> "pending", is_test |-> is_test, message_id |-> "none"]}
    /\ UNCHANGED <<content, trends, next_id, now, run, faults_left, drafts, zone_days>>

\* _update_send_status(send_record.id, SendStatus.SENDING)
MarkSending ==
    /\ SendAt("sending")
    /\ sends' = WrittenSend(sends, call.send_id, "sending", "none")
    /\ call' = [call EXCEPT !.pc = "provider"]
    /\ UNCHANGED <<content, trends, next_id, now, run, calls_left, faults_left, ret,
                   drafts, zone_days>>

\* the store fails while the status is set to sending
MarkSendingFails ==
    /\ SendAt("sending")
    /\ faults_left > 0
    /\ faults_left' = faults_left - 1
    /\ call' = [call EXCEPT !.pc = "except", !.store_failed = TRUE]
    /\ UNCHANGED <<content, trends, next_id, now, run, calls_left, ret, drafts, sends,
                   zone_days>>

\* the email provider accepts the email
ProviderAccepts ==
    /\ SendAt("provider")
    /\ call' = [call EXCEPT !.pc = "mark_sent", !.accepted = TRUE]
    /\ UNCHANGED <<content, trends, next_id, now, run, calls_left, faults_left, ret,
                   drafts, sends, zone_days>>

\* the email provider call fails
ProviderFails ==
    /\ SendAt("provider")
    /\ call' = [call EXCEPT !.pc = "except", !.provider_failed = TRUE]
    /\ UNCHANGED <<content, trends, next_id, now, run, calls_left, faults_left, ret,
                   drafts, sends, zone_days>>

\* the send record is updated with status sent and the provider's message id
MarkSent ==
    /\ SendAt("mark_sent")
    /\ sends' = WrittenSend(sends, call.send_id, "sent", "message")
    /\ call' = [call EXCEPT !.pc = "update_draft"]
    /\ UNCHANGED <<content, trends, next_id, now, run, calls_left, faults_left, ret,
                   drafts, zone_days>>

\* the store fails while the send record is updated with status sent
MarkSentFails ==
    /\ SendAt("mark_sent")
    /\ faults_left > 0
    /\ faults_left' = faults_left - 1
    /\ call' = [call EXCEPT !.pc = "except", !.store_failed = TRUE]
    /\ UNCHANGED <<content, trends, next_id, now, run, calls_left, ret, drafts, sends,
                   zone_days>>

\* "if not send_request.is_test and draft.status != DraftStatus.SENT":
\* update_draft is called with the dict {"status": DraftStatus.SENT}
DraftStatusUpdate ==
    /\ SendAt("update_draft")
    /\ LET wanted == ~call.is_test /\ call.draft.status # "sent"
           done == update_draft(drafts, call.draft_id, call.user_id,
                                [class |-> "dict", status |-> "sent"])
       IN  /\ drafts' = IF wanted /\ ~done.raised THEN done.table ELSE drafts
           /\ call' = [call EXCEPT !.pc = IF wanted /\ done.raised THEN "except"
                                          ELSE "return"]
    /\ UNCHANGED <<content, trends, next_id, now, run, calls_left, faults_left, ret,
                   sends, zone_days>>

\* return self._map_to_response(update_response.data[0])
ReturnRecord ==
    /\ SendAt("return")
    /\ ret' = Returned(SendOf(sends, call.send_id))
    /\ call' = [call EXCEPT !.pc = "done"]
    /\ UNCHANGED <<content, trends, next_id, now, run, calls_left, faults_left,
                   drafts, sends, zone_days>>

\* "except Exception as e": the send record is marked failed and the call raises
MarkFailed ==
    /\ SendAt("except")
    /\ sends' = WrittenSend(sends, call.send_id, "failed",
                            SendOf(sends, call.send_id).message_id)
    /\ ret' = Raised("Failed to send newsletter")
    /\ call' = [call EXCEPT !.pc = "done"]
    /\ UNCHANGED <<content, trends, next_id, now, run, calls_left, faults_left,
                   drafts, zone_days>>

NextSend ==
    \/ \E user_id \in Users, draft_id \in 1..2, is_test \in BOOLEAN, email_valid \in BOOLEAN :
          SendRequest(user_id, draft_id, is_test, email_valid)
    \/ MarkSending
    \/ MarkSendingFails
    \/ ProviderAccepts
    \/ ProviderFails
    \/ MarkSent
    \/ MarkSentFails
    \/ DraftStatusUpdate
    \/ ReturnRecord
    \/ MarkFailed

SpecSend == InitSend /\ [][NextSend]_vars

\* C21: when the email provider accepted a non-test send of a draft whose status
\* was not yet sent (and no store operation failed), send_newsletter ends with the
\* draft's status sent and returns the send record
AcceptedSendMarksDraftSent ==
    (/\ SendAt("done")
     /\ call.accepted
     /\ ~call.is_test
     /\ call.draft.status # "sent"
     /\ ~call.store_failed)
    => /\ ret.returned
       /\ ret.value = SendOf(sends, call.send_id)
       /\ get_draft(drafts, call.draft_id, call.user_id).status = "sent"

\* the status changes a send record may go through
SendStatusSteps ==
    {<<"pending", "sending">>, <<"sending", "sent">>, <<"sending", "failed">>}

\* C29: while no store operation fails, the record of a send_newsletter call moves
\* pending -> sending -> sent or pending -> sending -> failed and never from sent to
\* failed, it is marked failed only when the provider call failed (never after the
\* provider accepted the email), and the call raises exactly when the final status
\* is failed
SendRecordPath ==
    [][(call'.fn = "send_newsletter" /\ ~call'.store_failed) =>
          /\ \A r \in sends : \A q \in sends' :
                (q.id = r.id /\ q.status # r.status) =>
                   /\ <<r.status, q.status>> \in SendStatusSteps
                   /\ q.status = "failed" => (call'.provider_failed /\ ~call'.accepted)
          /\ (call'.pc = "done" /\ call'.send_id # 0) =>
                (ret'.raised <=> SendOf(sends', call'.send_id).status = "failed")]_vars

\* ------------------------------------------------------------------------
\* generate_draft (services/draft_service.py), called by the API and, with
\* force_regenerate = False, by the scheduler for one user after another.
\* created_at is written from datetime.utcnow(), so a row keeps the UTC day;
\* _get_today_draft compares it with date.today(), the server's local date.
\* ------------------------------------------------------------------------

\* number of generate_draft calls in one behaviour
MaxGenerates == 3

\* number of failures of what generate_draft calls, in one behaviour
DraftFaults == 1

\* what date.today() may be ahead of the UTC date, in days
ZoneDays == {-1, 0, 1}

\* date.today()
LocalToday == now + zone_days

\* the rows the query of _get_today_draft matches
TodayDrafts(table, user_id, today) ==
    {d \in table : d.user_id = user_id /\ d.created_at >= today}

\* _get_today_draft: the rows that may come first by created_at descending
get_today_draft(table, user_id, today) ==
    {d \in TodayDrafts(table, user_id, today) :
        \A e \in TodayDrafts(table, user_id, today) : e.created_at <= d.created_at}

InitDrafts ==
    /\ content = <<>>
    /\ trends = {}
    /\ next_id = 1
    /\ now = FirstDay
    /\ run = [r \in Callers |-> IdleRun]
    /\ calls_left = MaxGenerates
    /\ faults_left = DraftFaults
    /\ drafts = {}
    /\ sends = {}
    /\ zone_days \in ZoneDays
    /\ call = NoCall
    /\ ret = NoReturn

GenerateIdle == call.fn = "none" \/ (call.fn = "generate_draft" /\ call.pc = "done")

GenerateFrame(user_id, force_regenerate, pc) ==
    [fn |-> "generate_draft", user_id |-> user_id,
     force_regenerate |-> force_regenerate, pc |-> pc]

\* generate_draft is called and, unless forced, finds today's draft and returns it
ReturnExisting(user_id) ==
    /\ GenerateIdle
    /\ calls_left > 0
    /\ calls_left' = calls_left - 1
    /\ \E existing \in get_today_draft(drafts, user_id, LocalToday) :
          ret' = Returned(existing)
    /\ call' = GenerateFrame(user_id, FALSE, "done")
    /\ UNCHANGED <<content, trends, next_id, now, run, faults_left, drafts, sends, zone_days>>

\* generate_draft is called and goes on to generate: it is forced, or
\* _get_today_draft found nothing
StartGenerate(user_id, force_regenerate) ==
    /\ GenerateIdle
    /\ calls_left > 0
    /\ calls_left' = calls_left - 1
    /\ force_regenerate \/ get_today_draft(drafts, user_id, LocalToday) = {}
    /\ call' = GenerateFrame(user_id, force_regenerate, "generate")
    /\ ret' = NoReturn
    /\ UNCHANGED <<content, trends, next_id, now, run, faults_left, drafts, sends, zone_days>>

\* a query, the generator or the insert fails: generate_draft raises
GenerateFails ==
    /\ call.fn = "generate_draft" /\ call.pc = "generate"
    /\ faults_left > 0
    /\ faults_left' = faults_left - 1
    /\ call' = [call EXCEPT !.pc = "done"]
    /\ ret' = Raised("Failed to create draft")
    /\ UNCHANGED <<content, trends, next_id, now, run, calls_left, drafts, sends, zone_days>>

\* the generated draft is inserted with status pending and returned
InsertDraft ==
    /\ call.fn = "generate_draft" /\ call.pc = "generate"
    /\ LET draft == [id |-> Cardinality(drafts) + 1, user_id |-> call.user_id,
                     status |-> "pending", created_at |-> now]
       IN  /\ drafts' = drafts \cup {draft}
           /\ ret' = Returned(draft)
    /\ call' = [call EXCEPT !.pc = "done"]
    /\ UNCHANGED <<content, trends, next_id, now, run, calls_left, faults_left, sends,
                   zone_days>>

\* a day passes between two calls
NextDay == GenerateIdle /\ Tick

NextDrafts ==
    \/ \E user_id \in Users : ReturnExisting(user_id)
    \/ \E user_id \in Users, force_regenerate \in BOOLEAN :
          StartGenerate(user_id, force_regenerate)
    \/ GenerateFails
    \/ InsertDraft
    \/ NextDay

SpecDrafts == InitDrafts /\ [][NextDrafts]_vars

\* the drafts of the caller that were created on the current day
CreatedToday(table, user_id) == {d \in table : d.user_id = user_id /\ d.created_at = now}

\* C30: a generate_draft call with force_regenerate = False made when a draft of the
\* user created on the current day exists returns such a draft and inserts nothing;
\* so non-forced calls made one after another add at most one draft a day
NonForcedIsIdempotent ==
    [][(/\ call'.fn = "generate_draft"
        /\ ~call'.force_regenerate
        /\ calls_left' # calls_left \/ call.pc = "generate"
        /\ CreatedToday(drafts, call'.user_id) # {})
       => /\ drafts' = drafts
          /\ call'.pc = "done"
          /\ ret'.returned
          /\ ret'.value \in CreatedToday(drafts, call'.user_id)]_vars

====
